---- MODULE Spec2Model ----
(***************************************************************************)
(* State-machine model of octobot_trading.modes.AbstractTradingMode: the   *)
(* lifecycle (initialize / stop), the backtesting metadata recorder        *)
(* (save_backtesting_data), the order mediator (create / cancel / edit)    *)
(* and the remote signal scope (remote_signal_publisher).                  *)
(*                                                                         *)
(* Scheduling is asyncio's: one coroutine runs at a time and control can   *)
(* change hands only at an await.  A task's pc names the await it is       *)
(* suspended on; one action is "that awaited call returns (or raises) and  *)
(* the coroutine runs on to its next await".                               *)
(***************************************************************************)
EXTENDS Integers, Sequences, FiniteSets, TLC

VARIABLES
    managers,                         \* the exchange manager objects: bot_id, is_backtesting
    exchange_manager,                 \* self.exchange_manager of each mode instance (a manager or None)
    are_metadata_saved,               \* self.are_metadata_saved of each mode instance
    SAVED_RUN_METADATA_DB_BY_BOT_ID,  \* the class-level dict (a partial map bot id -> bool)
    producers,                        \* self.producers of each mode instance
    consumers,                        \* self.consumers of each mode instance
    unit_state,                       \* state of every producer / consumer object
    trading_config,                   \* self.trading_config of each mode instance (a dict or None)
    metadata_store,                   \* records held by each run's backtesting metadata database
    signal_builders,                  \* SignalPublisher: the bundle builder open for each symbol
    emitted,                          \* number of signal bundles sent to the remote transport
    portfolio,                        \* funds each exchange manager's portfolio holds
    filters,                          \* self.cryptocurrency, self.symbol, self.time_frame of each instance
    subscriptions,                    \* the consumers registered on the channels, with their filters
    received,                         \* the last event published and the consumers it was delivered to
    trades_db,                        \* the trades stored in the trades database of each instance's run
    tasks,                            \* the coroutines in flight, one per task slot
    calls,                            \* number of calls started so far
    faulted                           \* history: an awaited external call has raised

vars == <<managers, exchange_manager, are_metadata_saved, SAVED_RUN_METADATA_DB_BY_BOT_ID,
          producers, consumers, unit_state, trading_config, metadata_store,
          signal_builders, emitted, portfolio, filters, subscriptions, received,
          trades_db, tasks, calls, faulted>>

channelVars == <<filters, subscriptions, received, trades_db>>

orderVars == <<signal_builders, emitted, portfolio>>

----------------------------------------------------------------------------
(* Bounds and universes *)

None == "None"
Inst == {"m1", "m2"}
BotIds == {"X", "Y"}
Tasks == {1, 2}
MaxCalls == 2
MaxOrders == 2
MaxEntries == 10
MaxClosedTrades == 10
NumProducerClasses == 2
NumConsumerClasses == 1

MODE_PRODUCER_CLASSES == [k \in 1..NumProducerClasses |-> <<"P", k>>]
MODE_CONSUMER_CLASSES == [k \in 1..NumConsumerClasses |-> <<"C", k>>]
TradesConsumer == <<"T", 1>>
Units == {MODE_PRODUCER_CLASSES[k] : k \in 1..NumProducerClasses}
           \cup {MODE_CONSUMER_CLASSES[k] : k \in 1..NumConsumerClasses}
           \cup {TradesConsumer}

EmptyDict == <<>>

\* self.trading_config: None until a configuration is loaded (line 77), then a dict
NoConfig == [is_none |-> TRUE, dict |-> EmptyDict]
Loaded(d) == [is_none |-> FALSE, dict |-> d]

IdleTask == [op |-> "idle", inst |-> None, pc |-> "idle", k |-> 0, lst |-> <<>>,
             run |-> None, exc |-> None, at |-> None, log |-> <<>>,
             succeeded |-> FALSE, saved |-> FALSE,
             symbol |-> None, quantity |-> 0, scope |-> None, pf |-> None,
             edits |-> <<>>, id |-> 0, result |-> <<>>, ret |-> <<>>, returned |-> FALSE,
             timeout |-> 0, trading_mode_config |-> NoConfig, tentacle_config |-> EmptyDict,
             trades |-> <<>>, rate |-> <<>>, args |-> <<>>]

----------------------------------------------------------------------------
(* Helpers *)

Symbols == {"BTC/USDT", "ETH/USDT"}
Quantities == {250, 500}
OpenOrderQuantity == CHOOSE q \in Quantities : \A r \in Quantities : q <= r
InitialFunds == {1000}

\* channel_constants.CHANNEL_WILDCARD
CHANNEL_WILDCARD == "*"

\* lines 83-89: cryptocurrency, symbol and time frame are None as constructed
NoFilters == [cryptocurrency |-> None, symbol |-> None, time_frame |-> None]

\* nothing has been published yet
NoEvent == [channel |-> <<None, None>>, event |-> NoFilters, among |-> {}, consumers |-> {}]

\* Python truthiness of a filter attribute: None and "" are false
Truthy(x) == x \notin {None, ""}

\* SignalPublisher keeps one bundle builder per symbol while a scope on it is open
NoBuilder == [users |-> 0, records |-> <<>>]

\* dict.get(key, False)
DictGet(d, key) == IF key \in DOMAIN d THEN d[key] ELSE FALSE

\* d[key] = value
DictSet(d, key, value) == [x \in (DOMAIN d) \cup {key} |-> IF x = key THEN value ELSE d[x]]

\* self.exchange_manager.<attr>; only evaluated where the reference is not None
Manager(i) == managers[exchange_manager[i]]

\* the bot-run id of the manager the instance was constructed with
BotOf(i) == managers[i].bot_id

Logged(tk, ev) == [tk EXCEPT !.log = Append(@, ev)]

\* the coroutine ends with exception e; "at" keeps the await it surfaced at
Raised(tk, e) == [tk EXCEPT !.pc = "raised", !.exc = e, !.at = tk.pc]

\* task slots are interchangeable: a new call takes the first free slot
FirstIdle(t) == /\ tasks[t].op = "idle"
                /\ \A u \in Tasks : u < t => tasks[u].op /= "idle"

CanCall(t) == FirstIdle(t) /\ calls < MaxCalls

----------------------------------------------------------------------------
(* stop(), lines 218-222: the teardown loops.  Each fragment fixes tasks'   *)
(* and exchange_manager'.                                                   *)

\* line 222: self.exchange_manager = None, then stop() returns
Release(t, tk) ==
    /\ exchange_manager' = [exchange_manager EXCEPT ![tk.inst] = None]
    /\ tasks' = [tasks EXCEPT ![t] = [Logged(tk, "release") EXCEPT !.pc = "done", !.k = 0, !.lst = <<>>]]

\* lines 220-221: for consumer in self.consumers: await consumer.stop()
ConsumersFrom(t, tk, lst, k) ==
    IF k <= Len(lst)
    THEN /\ tasks' = [tasks EXCEPT ![t] = [tk EXCEPT !.pc = "consumer_stop", !.lst = lst, !.k = k]]
         /\ UNCHANGED exchange_manager
    ELSE Release(t, tk)

\* lines 218-219: for producer in self.producers: await producer.stop()
ProducersFrom(t, tk, lst, k) ==
    IF k <= Len(lst)
    THEN /\ tasks' = [tasks EXCEPT ![t] = [tk EXCEPT !.pc = "producer_stop", !.lst = lst, !.k = k]]
         /\ UNCHANGED exchange_manager
    ELSE ConsumersFrom(t, tk, consumers[tk.inst], 1)

\* mutant of Teardown: the producers' loop is left out, consumers are stopped first
TeardownConsumersFirst(t, tk) == ConsumersFrom(t, tk, consumers[tk.inst], 1)

Teardown(t, tk) == ProducersFrom(t, tk, producers[tk.inst], 1)

\* save_backtesting_data() has returned: stop() goes on with line 218, a direct call returns
AfterSave(t, tk) ==
    IF tk.op = "stop"
    THEN Teardown(t, tk)
    ELSE /\ tasks' = [tasks EXCEPT ![t] = [tk EXCEPT !.pc = "done"]]
         /\ UNCHANGED exchange_manager

\* an exception leaves the coroutine (stop() has no handler of its own)
Propagate(t, tk, e) ==
    /\ tasks' = [tasks EXCEPT ![t] = Raised(tk, e)]
    /\ UNCHANGED exchange_manager

\* lines 496-501: the guard, then the first await (run_data_writer.flush())
EnterSave(t, tk) ==
    IF ~are_metadata_saved[tk.inst] /\ exchange_manager[tk.inst] /= None
    THEN /\ tasks' = [tasks EXCEPT ![t] = [tk EXCEPT !.pc = "flush", !.run = Manager(tk.inst).bot_id]]
         /\ UNCHANGED exchange_manager
    ELSE AfterSave(t, tk)

\* line 216: if self.exchange_manager.is_backtesting: await self.save_backtesting_data()
StopBody(t, tk) ==
    IF exchange_manager[tk.inst] = None
    THEN Propagate(t, tk, "AttributeError")
    ELSE IF Manager(tk.inst).is_backtesting
         THEN EnterSave(t, Logged(tk, "save_backtesting_data"))
         ELSE Teardown(t, tk)

UnchangedSaveState ==
    UNCHANGED <<channelVars, orderVars, managers, are_metadata_saved, SAVED_RUN_METADATA_DB_BY_BOT_ID, producers,
                consumers, unit_state, trading_config, metadata_store, faulted>>

InitializeAwaits == {"load_and_save_user_inputs", "run_dbs_initialize", "save_portfolio",
                     "save_live_metadata", "producer_run", "new_consumer",
                     "new_trades_consumer"}
Unguarded == {"flush", "get_user_inputs", "save_transactions", "save_trades",
              "producer_stop", "consumer_stop"} \cup InitializeAwaits
InWriterBody == {"get_backtesting_metadata", "save_metadata"}
AtWriterEdge == {"writer_enter", "writer_exit", "writer_exit_exc"}
Guarded == InWriterBody \cup AtWriterEdge

\* the metadata of bot-run b are saved for good: the flag is set and no writer is at work
Succeeded(b) ==
    /\ DictGet(SAVED_RUN_METADATA_DB_BY_BOT_ID, b)
    /\ \A u \in Tasks : ~(tasks[u].pc \in Guarded /\ tasks[u].run = b)

\* a fresh coroutine of operation op on instance i, with what it finds at its call
NewTask(op, i) ==
    [IdleTask EXCEPT !.op = op, !.inst = i, !.pc = "call",
                     !.succeeded = Succeeded(BotOf(i)), !.saved = are_metadata_saved[i]]

\* a caller invokes stop() on instance i
CallStop(t, i) ==
    /\ CanCall(t)
    /\ calls' = calls + 1
    /\ StopBody(t, NewTask("stop", i))
    /\ UnchangedSaveState

\* a caller invokes save_backtesting_data() on instance i directly
CallSave(t, i) ==
    /\ CanCall(t)
    /\ calls' = calls + 1
    /\ EnterSave(t, NewTask("save", i))
    /\ UnchangedSaveState

----------------------------------------------------------------------------
(* save_backtesting_data(), lines 501-522, one action per await *)

Suspend(t, tk, pc) ==
    /\ tasks' = [tasks EXCEPT ![t] = [tk EXCEPT !.pc = pc]]
    /\ UNCHANGED exchange_manager

\* line 501: await run_data_writer.flush() returns
FlushDone(t) ==
    /\ tasks[t].pc = "flush"
    /\ Suspend(t, Logged(tasks[t], "flush"), "get_user_inputs")
    /\ UNCHANGED calls
    /\ UnchangedSaveState

\* line 502 returns; line 505 save_transactions() reads self.exchange_manager (lines 285-286)
GetUserInputsDone(t) ==
    /\ tasks[t].pc = "get_user_inputs"
    /\ LET tk == Logged(tasks[t], "get_user_inputs") IN
         IF exchange_manager[tk.inst] = None
         THEN Propagate(t, tk, "AttributeError")
         ELSE Suspend(t, tk, "save_transactions")
    /\ UNCHANGED calls
    /\ UnchangedSaveState

\* line 505 returns; line 506 save_trades() reads self.exchange_manager (lines 291-292)
SaveTransactionsDone(t) ==
    /\ tasks[t].pc = "save_transactions"
    /\ LET tk == Logged(tasks[t], "save_transactions") IN
         IF exchange_manager[tk.inst] = None
         THEN Propagate(t, tk, "AttributeError")
         ELSE Suspend(t, tk, "save_trades")
    /\ UNCHANGED calls
    /\ UnchangedSaveState

\* mutant of FlagCheck: the class-level flag is set but never consulted
FlagCheckUnguarded(t, tk) ==
    IF exchange_manager[tk.inst] = None
    THEN /\ Propagate(t, tk, "AttributeError")
         /\ UNCHANGED SAVED_RUN_METADATA_DB_BY_BOT_ID
    ELSE /\ SAVED_RUN_METADATA_DB_BY_BOT_ID' =
               DictSet(SAVED_RUN_METADATA_DB_BY_BOT_ID, Manager(tk.inst).bot_id, TRUE)
         /\ Suspend(t, tk, "writer_enter")

\* lines 509-512: the check of the class-level flag, its setting, and the await that
\* enters the locked writer; without a switch of coroutine in between
FlagCheck(t, tk) ==
    IF exchange_manager[tk.inst] = None
    THEN /\ Propagate(t, tk, "AttributeError")
         /\ UNCHANGED SAVED_RUN_METADATA_DB_BY_BOT_ID
    ELSE IF ~DictGet(SAVED_RUN_METADATA_DB_BY_BOT_ID, Manager(tk.inst).bot_id)
         THEN /\ SAVED_RUN_METADATA_DB_BY_BOT_ID' =
                    DictSet(SAVED_RUN_METADATA_DB_BY_BOT_ID, Manager(tk.inst).bot_id, TRUE)
              /\ Suspend(t, tk, "writer_enter")
         ELSE /\ AfterSave(t, tk)
              /\ UNCHANGED SAVED_RUN_METADATA_DB_BY_BOT_ID

\* line 506 returns, then lines 509-512
SaveTradesDone(t) ==
    /\ tasks[t].pc = "save_trades"
    /\ FlagCheck(t, Logged(tasks[t], "save_trades"))
    /\ UNCHANGED <<channelVars, orderVars, managers, are_metadata_saved, producers, consumers, unit_state,
                   trading_config, metadata_store, faulted, calls>>

\* mutant of Handler: a failed save clears the flag of every run
HandlerClearsAll(t, tk, e) ==
    IF exchange_manager[tk.inst] = None
    THEN /\ Propagate(t, tk, "AttributeError")
         /\ UNCHANGED SAVED_RUN_METADATA_DB_BY_BOT_ID
    ELSE /\ SAVED_RUN_METADATA_DB_BY_BOT_ID' =
               [b \in DOMAIN DictSet(SAVED_RUN_METADATA_DB_BY_BOT_ID, Manager(tk.inst).bot_id, FALSE)
                   |-> FALSE]
         /\ Propagate(t, tk, e)

\* lines 520-522: except Exception: reset the flag of self.exchange_manager.bot_id, re-raise
Handler(t, tk, e) ==
    IF exchange_manager[tk.inst] = None
    THEN /\ Propagate(t, tk, "AttributeError")
         /\ UNCHANGED SAVED_RUN_METADATA_DB_BY_BOT_ID
    ELSE /\ SAVED_RUN_METADATA_DB_BY_BOT_ID' =
               DictSet(SAVED_RUN_METADATA_DB_BY_BOT_ID, Manager(tk.inst).bot_id, FALSE)
         /\ Propagate(t, tk, e)

\* lines 512-514: the writer is entered; line 515 calls get_backtesting_metadata(), which
\* reads self.exchange_manager (lines 569-575) before its first await
WriterEnterDone(t) ==
    /\ tasks[t].pc = "writer_enter"
    /\ LET tk == Logged(tasks[t], "writer_enter") IN
         IF exchange_manager[tk.inst] = None
         THEN Suspend(t, [tk EXCEPT !.exc = "AttributeError"], "writer_exit_exc")
         ELSE Suspend(t, tk, "get_backtesting_metadata")
    /\ UNCHANGED calls
    /\ UnchangedSaveState

\* line 515: get_backtesting_metadata() comes back from its awaits (lines 610-614), builds
\* the record reading self.exchange_manager (lines 631-647), and save_metadata() is awaited
MetadataComputed(t) ==
    /\ tasks[t].pc = "get_backtesting_metadata"
    /\ LET tk == Logged(tasks[t], "get_backtesting_metadata") IN
         IF exchange_manager[tk.inst] = None
         THEN Suspend(t, [tk EXCEPT !.exc = "AttributeError"], "writer_exit_exc")
         ELSE Suspend(t, tk, "save_metadata")
    /\ UNCHANGED calls
    /\ UnchangedSaveState

\* lines 515-519: save_metadata() has written the record; self.are_metadata_saved = True;
\* leaving the async with awaits the writer's exit
SaveMetadataDone(t) ==
    /\ tasks[t].pc = "save_metadata"
    /\ metadata_store' = [metadata_store EXCEPT ![tasks[t].run] = @ + 1]
    /\ are_metadata_saved' = [are_metadata_saved EXCEPT ![tasks[t].inst] = TRUE]
    /\ Suspend(t, Logged(tasks[t], "save_metadata"), "writer_exit")
    /\ UNCHANGED <<channelVars, orderVars, managers, SAVED_RUN_METADATA_DB_BY_BOT_ID, producers, consumers,
                   unit_state, trading_config, faulted, calls>>

\* the writer's exit returns: save_backtesting_data() returns
WriterExitDone(t) ==
    /\ tasks[t].pc = "writer_exit"
    /\ AfterSave(t, Logged(tasks[t], "writer_exit"))
    /\ UNCHANGED calls
    /\ UnchangedSaveState

\* the writer's exit, awaited with the body's exception pending, returns: the exception
\* reaches the except clause
WriterExitExcDone(t) ==
    /\ tasks[t].pc = "writer_exit_exc"
    /\ Handler(t, tasks[t], tasks[t].exc)
    /\ UNCHANGED <<channelVars, orderVars, managers, are_metadata_saved, producers, consumers, unit_state,
                   trading_config, metadata_store, faulted, calls>>

----------------------------------------------------------------------------
(* stop(), lines 218-221: one action per awaited unit stop *)

SetUnit(i, u, st) == [unit_state EXCEPT ![i][u] = st]

\* line 219: await producer.stop() returns
ProducerStopDone(t) ==
    /\ tasks[t].pc = "producer_stop"
    /\ unit_state' = SetUnit(tasks[t].inst, tasks[t].lst[tasks[t].k], "stopped")
    /\ ProducersFrom(t, Logged(tasks[t], "producer_stop"), tasks[t].lst, tasks[t].k + 1)
    /\ UNCHANGED <<channelVars, orderVars, managers, are_metadata_saved, SAVED_RUN_METADATA_DB_BY_BOT_ID, producers,
                   consumers, trading_config, metadata_store, faulted, calls>>

\* line 221: await consumer.stop() returns
ConsumerStopDone(t) ==
    /\ tasks[t].pc = "consumer_stop"
    /\ unit_state' = SetUnit(tasks[t].inst, tasks[t].lst[tasks[t].k], "stopped")
    /\ ConsumersFrom(t, Logged(tasks[t], "consumer_stop"), tasks[t].lst, tasks[t].k + 1)
    /\ UNCHANGED <<channelVars, orderVars, managers, are_metadata_saved, SAVED_RUN_METADATA_DB_BY_BOT_ID, producers,
                   consumers, trading_config, metadata_store, faulted, calls>>

----------------------------------------------------------------------------
(* An awaited external call raises instead of returning *)

AwaitRaises(t) ==
    /\ tasks[t].pc \in Unguarded \cup Guarded
    /\ faulted' = TRUE
    /\ LET tk == [tasks[t] EXCEPT !.exc = "Error"] IN
         CASE tk.pc \in Unguarded ->
                /\ Propagate(t, tk, "Error")
                /\ UNCHANGED SAVED_RUN_METADATA_DB_BY_BOT_ID
           [] tk.pc \in InWriterBody ->
                /\ Suspend(t, tk, "writer_exit_exc")
                /\ UNCHANGED SAVED_RUN_METADATA_DB_BY_BOT_ID
           [] tk.pc \in AtWriterEdge ->
                Handler(t, tk, "Error")
    /\ unit_state' = IF tasks[t].pc = "producer_run"
                     THEN SetUnit(tasks[t].inst, MODE_PRODUCER_CLASSES[tasks[t].k], "failed")
                     ELSE unit_state
    /\ UNCHANGED <<channelVars, orderVars, managers, are_metadata_saved, producers, consumers,
                   trading_config, metadata_store, calls>>

\* the caller has received the result (or the exception): the slot is free again
Return(t) ==
    /\ tasks[t].pc \in {"done", "raised"}
    /\ tasks' = [tasks EXCEPT ![t] = IdleTask]
    /\ UNCHANGED <<exchange_manager, calls>>
    /\ UnchangedSaveState

----------------------------------------------------------------------------
(* The channels the consumers are registered on *)

\* exchanges_channel.get_chan(name, self.exchange_manager.id): one channel per name and manager
ModeChannel(i) == <<"Mode", exchange_manager[i]>>
TradesChannel(i) == <<"Trades", exchange_manager[i]>>

\* mutant of ModeSubscription: the attributes are passed as they are, None included
ModeSubscriptionRaw(i, unit) ==
    [channel |-> ModeChannel(i), consumer |-> <<i, unit>>,
     cryptocurrency |-> filters[i].cryptocurrency, symbol |-> filters[i].symbol,
     time_frame |-> filters[i].time_frame]

\* lines 317-322: the mode consumer is registered with the instance's filters, an unset
\* one replaced by the wildcard
ModeSubscription(i, unit) ==
    [channel |-> ModeChannel(i), consumer |-> <<i, unit>>,
     cryptocurrency |-> IF Truthy(filters[i].cryptocurrency)
                        THEN filters[i].cryptocurrency ELSE CHANNEL_WILDCARD,
     symbol |-> IF Truthy(filters[i].symbol) THEN filters[i].symbol ELSE CHANNEL_WILDCARD,
     time_frame |-> IF Truthy(filters[i].time_frame)
                    THEN filters[i].time_frame ELSE CHANNEL_WILDCARD]

\* lines 274-279: the trades callback is registered with symbol=self.symbol only; the
\* channel's defaults for the other two filters are the wildcard
TradesSubscription(i) ==
    [channel |-> TradesChannel(i), consumer |-> <<i, TradesConsumer>>,
     cryptocurrency |-> CHANNEL_WILDCARD, symbol |-> filters[i].symbol,
     time_frame |-> CHANNEL_WILDCARD]

----------------------------------------------------------------------------
(* Teardown specification: instances that initialize() has set up *)

InitializedConsumers(i) ==
    MODE_CONSUMER_CLASSES \o (IF managers[i].is_backtesting THEN <<>> ELSE <<TradesConsumer>>)

Range(f) == {f[x] : x \in DOMAIN f}

\* the registrations a completed initialize() has made for every instance
InitializedSubscriptions ==
    UNION {{ModeSubscription(i, MODE_CONSUMER_CLASSES[k]) : k \in 1..NumConsumerClasses}
           \cup (IF managers[i].is_backtesting THEN {} ELSE {TradesSubscription(i)}) : i \in Inst}

InitManagers ==
    /\ managers \in [Inst -> [bot_id : BotIds, is_backtesting : BOOLEAN]]
    /\ managers["m1"].bot_id = "X"

Init ==
    /\ InitManagers
    /\ exchange_manager = [i \in Inst |-> i]
    /\ are_metadata_saved = [i \in Inst |-> FALSE]
    /\ SAVED_RUN_METADATA_DB_BY_BOT_ID = <<>>
    /\ producers = [i \in Inst |-> MODE_PRODUCER_CLASSES]
    /\ consumers = [i \in Inst |-> InitializedConsumers(i)]
    /\ unit_state = [i \in Inst |-> [u \in Units |->
                        IF u \in Range(producers[i]) \cup Range(consumers[i])
                        THEN "started" ELSE "absent"]]
    /\ trading_config = [i \in Inst |-> Loaded(EmptyDict)]
    /\ signal_builders = [sym \in Symbols |-> NoBuilder]
    /\ emitted = 0
    /\ portfolio \in [Inst -> InitialFunds]
    /\ filters = [i \in Inst |-> NoFilters]
    /\ subscriptions = InitializedSubscriptions
    /\ received = NoEvent
    /\ trades_db = [i \in Inst |-> <<>>]
    /\ metadata_store = [b \in BotIds |-> 0]
    /\ tasks = [t \in Tasks |-> IdleTask]
    /\ calls = 0
    /\ faulted = FALSE

SaveSteps(t) ==
    \/ FlushDone(t)
    \/ GetUserInputsDone(t)
    \/ SaveTransactionsDone(t)
    \/ SaveTradesDone(t)
    \/ WriterEnterDone(t)
    \/ MetadataComputed(t)
    \/ SaveMetadataDone(t)
    \/ WriterExitDone(t)
    \/ WriterExitExcDone(t)

Next ==
    \/ \E t \in Tasks, i \in Inst : CallStop(t, i)
    \/ \E t \in Tasks, i \in Inst : CallSave(t, i)
    \/ \E t \in Tasks : SaveSteps(t)
    \/ \E t \in Tasks : ProducerStopDone(t)
    \/ \E t \in Tasks : ConsumerStopDone(t)
    \/ \E t \in Tasks : AwaitRaises(t)
    \/ \E t \in Tasks : Return(t)

Spec == Init /\ [][Next]_vars

TypeOK ==
    /\ exchange_manager \in [Inst -> Inst \cup {None}]
    /\ are_metadata_saved \in [Inst -> BOOLEAN]
    /\ DOMAIN SAVED_RUN_METADATA_DB_BY_BOT_ID \subseteq BotIds
    /\ calls \in 0..MaxCalls

----------------------------------------------------------------------------
(* initialize(), lines 201-210, with reload_config (347-361), save_exchange_init_data    *)
(* (295-306), create_producers (224-244) and create_consumers (246-281, 310-323).        *)

EMIT == "emit_trading_signals"
ConfigChoices == {EmptyDict, [key \in {EMIT} |-> TRUE], [key \in {EMIT} |-> FALSE]}

\* the consumers' fragments fix tasks' and consumers'
InitRaise(t, tk, e) ==
    /\ tasks' = [tasks EXCEPT ![t] = Raised(tk, e)]
    /\ UNCHANGED consumers

InitSuspend(t, tk, pc) ==
    /\ tasks' = [tasks EXCEPT ![t] = [tk EXCEPT !.pc = pc]]
    /\ UNCHANGED consumers

\* line 210 with line 255: self.consumers = base_consumers + temp consumers; initialize() returns
ConsumersCreated(t, tk, lst) ==
    /\ consumers' = [consumers EXCEPT ![tk.inst] = lst]
    /\ tasks' = [tasks EXCEPT ![t] = [tk EXCEPT !.pc = "done", !.k = 0, !.lst = <<>>]]

\* mutant of AddTempConsumers: the trades consumer is created in backtesting too
AddTempConsumersAlways(t, tk) ==
    IF exchange_manager[tk.inst] = None
    THEN InitRaise(t, tk, "AttributeError")
    ELSE InitSuspend(t, tk, "new_trades_consumer")

\* lines 258-281: _add_temp_consumers(): the trades consumer, outside backtesting only
AddTempConsumers(t, tk) ==
    IF exchange_manager[tk.inst] = None
    THEN InitRaise(t, tk, "AttributeError")
    ELSE IF ~Manager(tk.inst).is_backtesting
         THEN InitSuspend(t, tk, "new_trades_consumer")
         ELSE ConsumersCreated(t, tk, tk.lst)

\* lines 251-254 with 316-322: instantiate consumer class k, await its subscription
CreateConsumersFrom(t, tk, k) ==
    IF k <= Len(MODE_CONSUMER_CLASSES)
    THEN IF exchange_manager[tk.inst] = None
         THEN InitRaise(t, tk, "AttributeError")
         ELSE InitSuspend(t, [tk EXCEPT !.k = k], "new_consumer")
    ELSE AddTempConsumers(t, tk)

\* line 209: self.producers = <the list built>, then line 210 create_consumers()
ProducersCreated(t, tk) ==
    /\ producers' = [producers EXCEPT ![tk.inst] = tk.lst]
    /\ CreateConsumersFrom(t, [tk EXCEPT !.lst = <<>>], 1)

\* mutant of CreateProducersFrom: every remaining producer is instantiated and its run()
\* started at once (a gather over the classes), the coroutine then awaits them one by one
CreateProducersAllAtOnce(t, tk, k, us) ==
    IF k <= Len(MODE_PRODUCER_CLASSES)
    THEN IF exchange_manager[tk.inst] = None
         THEN InitRaise(t, tk, "AttributeError") /\ UNCHANGED producers /\ unit_state' = us
         ELSE /\ unit_state' = [us EXCEPT ![tk.inst] =
                                   [u \in Units |->
                                       IF \E n \in k..Len(MODE_PRODUCER_CLASSES) :
                                               u = MODE_PRODUCER_CLASSES[n]
                                       THEN "running" ELSE @[u]]]
              /\ tasks' = [tasks EXCEPT ![t] = [tk EXCEPT !.pc = "producer_run", !.k = k]]
              /\ UNCHANGED <<producers, consumers>>
    ELSE ProducersCreated(t, tk) /\ unit_state' = us

\* lines 229-232 with 240-243: instantiate producer class k and await its run(); after the
\* last class the list is returned to initialize().  us is the units' state as the previous
\* step left it.  Fixes tasks', unit_state', producers' and consumers'.
CreateProducersFrom(t, tk, k, us) ==
    IF k <= Len(MODE_PRODUCER_CLASSES)
    THEN IF exchange_manager[tk.inst] = None
         THEN InitRaise(t, tk, "AttributeError") /\ UNCHANGED producers /\ unit_state' = us
         ELSE /\ unit_state' = [us EXCEPT ![tk.inst][MODE_PRODUCER_CLASSES[k]] = "running"]
              /\ tasks' = [tasks EXCEPT ![t] = [tk EXCEPT !.pc = "producer_run", !.k = k]]
              /\ UNCHANGED <<producers, consumers>>
    ELSE ProducersCreated(t, tk) /\ unit_state' = us

UnchangedByInitialize ==
    UNCHANGED <<filters, received, trades_db, orderVars, managers, exchange_manager, are_metadata_saved,
                SAVED_RUN_METADATA_DB_BY_BOT_ID, metadata_store, faulted>>

\* initialize() is called once at a time on an instance
NotInitializing(i) ==
    \A u \in Tasks : ~(tasks[u].op = "initialize" /\ tasks[u].inst = i
                        /\ tasks[u].pc \notin {"done", "raised"})

\* a caller invokes initialize() on instance i: line 205 and reload_config() up to its
\* await of load_and_save_user_inputs (line 357); cfg is what the tentacle configuration holds
CallInitialize(t, i, cfg) ==
    /\ CanCall(t)
    /\ NotInitializing(i)
    /\ calls' = calls + 1
    /\ IF exchange_manager[i] = None
       THEN /\ InitRaise(t, NewTask("initialize", i), "AttributeError")
            /\ UNCHANGED trading_config
       ELSE /\ trading_config' = [trading_config EXCEPT ![i] = Loaded(cfg)]
            /\ InitSuspend(t, NewTask("initialize", i), "load_and_save_user_inputs")
    /\ UNCHANGED <<producers, unit_state, subscriptions>>
    /\ UnchangedByInitialize

\* line 357 returns (358-361 reload the units' configuration); lines 206-207 are awaited
LoadUserInputsDone(t) ==
    /\ tasks[t].pc = "load_and_save_user_inputs"
    /\ LET tk == Logged(tasks[t], "load_and_save_user_inputs") IN
         IF exchange_manager[tk.inst] = None
         THEN InitRaise(t, tk, "AttributeError")
         ELSE InitSuspend(t, tk, "run_dbs_initialize")
    /\ UNCHANGED <<trading_config, calls, producers, unit_state, subscriptions>>
    /\ UnchangedByInitialize

\* mutant of RunDbsInitializeDone: the initial data are persisted only while the metadata
\* of the run are not saved
RunDbsInitializeDoneGuarded(t) ==
    /\ tasks[t].pc = "run_dbs_initialize"
    /\ IF DictGet(SAVED_RUN_METADATA_DB_BY_BOT_ID, BotOf(tasks[t].inst))
       THEN CreateProducersFrom(t, [Logged(tasks[t], "run_dbs_initialize") EXCEPT !.lst = <<>>],
                                1, unit_state)
       ELSE /\ InitSuspend(t, Logged(tasks[t], "run_dbs_initialize"), "save_portfolio")
            /\ UNCHANGED <<producers, unit_state>>
    /\ UNCHANGED <<trading_config, calls, subscriptions>>
    /\ UnchangedByInitialize

\* lines 206-207 return; line 208 save_exchange_init_data() awaits save_portfolio() (305)
RunDbsInitializeDone(t) ==
    /\ tasks[t].pc = "run_dbs_initialize"
    /\ InitSuspend(t, Logged(tasks[t], "run_dbs_initialize"), "save_portfolio")
    /\ UNCHANGED <<trading_config, calls, producers, unit_state, subscriptions>>
    /\ UnchangedByInitialize

\* line 305 returns; line 306 save_live_metadata() reads self.exchange_manager (line 300)
SavePortfolioDone(t) ==
    /\ tasks[t].pc = "save_portfolio"
    /\ LET tk == Logged(tasks[t], "save_portfolio") IN
         IF exchange_manager[tk.inst] = None
         THEN InitRaise(t, tk, "AttributeError")
         ELSE InitSuspend(t, tk, "save_live_metadata")
    /\ UNCHANGED <<trading_config, calls, producers, unit_state, subscriptions>>
    /\ UnchangedByInitialize

\* line 306 returns; line 209 create_producers() starts with the first class
SaveLiveMetadataDone(t) ==
    /\ tasks[t].pc = "save_live_metadata"
    /\ CreateProducersFrom(t, [Logged(tasks[t], "save_live_metadata") EXCEPT !.lst = <<>>], 1,
                           unit_state)
    /\ UNCHANGED <<trading_config, calls, subscriptions>>
    /\ UnchangedByInitialize

\* line 243: await mode_producer.run() returns; the producer joins the list being built and
\* the comprehension of lines 229-232 goes on to the next class
ProducerRunDone(t) ==
    /\ tasks[t].pc = "producer_run"
    /\ LET tk == Logged(tasks[t], "producer_run")
           unit == MODE_PRODUCER_CLASSES[tk.k]
       IN CreateProducersFrom(t, [tk EXCEPT !.lst = Append(@, unit)], tk.k + 1,
                              SetUnit(tk.inst, unit, "started"))
    /\ UNCHANGED <<trading_config, calls, subscriptions>>
    /\ UnchangedByInitialize

\* line 317: await new_consumer(...) returns: the consumer is subscribed to the mode channel
NewConsumerDone(t) ==
    /\ tasks[t].pc = "new_consumer"
    /\ LET tk == Logged(tasks[t], "new_consumer")
           unit == MODE_CONSUMER_CLASSES[tk.k]
       IN /\ unit_state' = SetUnit(tk.inst, unit, "started")
          /\ subscriptions' = subscriptions \cup {ModeSubscription(tk.inst, unit)}
          /\ CreateConsumersFrom(t, [tk EXCEPT !.lst = Append(@, unit)], tk.k + 1)
    /\ UNCHANGED <<trading_config, calls, producers>>
    /\ UnchangedByInitialize

\* lines 274-280: the trades channel's new_consumer(...) returns
NewTradesConsumerDone(t) ==
    /\ tasks[t].pc = "new_trades_consumer"
    /\ unit_state' = SetUnit(tasks[t].inst, TradesConsumer, "started")
    /\ subscriptions' = subscriptions \cup {TradesSubscription(tasks[t].inst)}
    /\ ConsumersCreated(t, Logged(tasks[t], "new_trades_consumer"),
                        Append(tasks[t].lst, TradesConsumer))
    /\ UNCHANGED <<trading_config, calls, producers>>
    /\ UnchangedByInitialize

----------------------------------------------------------------------------
(* Start-up specification: instances as the constructor leaves them (lines 63-101) *)

InitConstructed ==
    /\ InitManagers
    /\ exchange_manager = [i \in Inst |-> i]
    /\ are_metadata_saved = [i \in Inst |-> FALSE]
    /\ SAVED_RUN_METADATA_DB_BY_BOT_ID = <<>>
    /\ producers = [i \in Inst |-> <<>>]
    /\ consumers = [i \in Inst |-> <<>>]
    /\ unit_state = [i \in Inst |-> [u \in Units |-> "absent"]]
    /\ trading_config = [i \in Inst |-> NoConfig]
    /\ signal_builders = [sym \in Symbols |-> NoBuilder]
    /\ emitted = 0
    /\ portfolio \in [Inst -> InitialFunds]
    /\ filters = [i \in Inst |-> NoFilters]
    /\ subscriptions = {}
    /\ received = NoEvent
    /\ trades_db = [i \in Inst |-> <<>>]
    /\ metadata_store = [b \in BotIds |-> 0]
    /\ tasks = [t \in Tasks |-> IdleTask]
    /\ calls = 0
    /\ faulted = FALSE

InitializeSteps(t) ==
    \/ LoadUserInputsDone(t)
    \/ RunDbsInitializeDone(t)
    \/ SavePortfolioDone(t)
    \/ SaveLiveMetadataDone(t)
    \/ ProducerRunDone(t)
    \/ NewConsumerDone(t)
    \/ NewTradesConsumerDone(t)

NextInit ==
    \/ \E t \in Tasks, i \in Inst, cfg \in ConfigChoices : CallInitialize(t, i, cfg)
    \/ \E t \in Tasks : InitializeSteps(t)
    \/ \E t \in Tasks : AwaitRaises(t)
    \/ \E t \in Tasks : Return(t)

SpecInit == InitConstructed /\ [][NextInit]_vars

\* initialize() next to stop() and save_backtesting_data(), on two instances of one bot
\* run as constructed
InitConstructedOneRun ==
    /\ InitConstructed
    /\ managers = [i \in Inst |-> [bot_id |-> "X", is_backtesting |-> i = "m1"]]

NextInitStop == NextInit \/ Next

SpecInitStop == InitConstructedOneRun /\ [][NextInitStop]_vars

\* what a completed initialize() leaves in an instance is what Init starts the teardown from
InitializedAsInit ==
    \A t \in Tasks :
        (tasks[t].op = "initialize" /\ tasks[t].pc = "done" /\ NotInitializing(tasks[t].inst)
            /\ ~faulted) =>
            /\ producers[tasks[t].inst] = MODE_PRODUCER_CLASSES
            /\ consumers[tasks[t].inst] = InitializedConsumers(tasks[t].inst)
            /\ \A u \in Units :
                  unit_state[tasks[t].inst][u] =
                     IF u \in Range(producers[tasks[t].inst]) \cup Range(consumers[tasks[t].inst])
                     THEN "started" ELSE "absent"

----------------------------------------------------------------------------
(* Publication on the mode channel.  The channel itself (async_channel) is   *)
(* not part of the sources at hand: its matching is modelled from its        *)
(* description.                                                              *)

Events == [cryptocurrency : {"Bitcoin", "Ethereum"}, symbol : Symbols, time_frame : {"1h"}]

\* the filters a mode instance is given after construction
FilterChoices ==
    {NoFilters,
     [cryptocurrency |-> "Bitcoin", symbol |-> "BTC/USDT", time_frame |-> "1h"],
     [cryptocurrency |-> "Bitcoin", symbol |-> "BTC/USDT", time_frame |-> "4h"],
     [cryptocurrency |-> "", symbol |-> "ETH/USDT", time_frame |-> None]}

\* a filter lets a value through when it is the wildcard or that very value
FilterMatches(filter, value) == filter = CHANNEL_WILDCARD \/ filter = value

\* the channel delivers ev to the subscriber s
Delivers(s, ev) ==
    /\ FilterMatches(s.cryptocurrency, ev.cryptocurrency)
    /\ FilterMatches(s.symbol, ev.symbol)
    /\ FilterMatches(s.time_frame, ev.time_frame)

\* a producer of instance i publishes ev on the mode channel of its exchange manager
Publish(i, ev) ==
    /\ exchange_manager[i] /= None
    /\ LET on == {s \in subscriptions : s.channel = ModeChannel(i)} IN
         received' = [channel |-> ModeChannel(i), event |-> ev,
                      among |-> {s.consumer : s \in on},
                      consumers |-> {s.consumer : s \in {x \in on : Delivers(x, ev)}}]
    /\ UNCHANGED <<filters, subscriptions, trades_db, orderVars, tasks, calls, faulted>>
    /\ UNCHANGED <<managers, exchange_manager, are_metadata_saved,
                   SAVED_RUN_METADATA_DB_BY_BOT_ID, producers, consumers, unit_state,
                   trading_config, metadata_store>>

\* instances as constructed, m1 with the filters its factory gave it
InitChannels ==
    /\ managers = [i \in Inst |-> [bot_id |-> "X", is_backtesting |-> i /= "m1"]]
    /\ exchange_manager = [i \in Inst |-> i]
    /\ are_metadata_saved = [i \in Inst |-> FALSE]
    /\ SAVED_RUN_METADATA_DB_BY_BOT_ID = <<>>
    /\ producers = [i \in Inst |-> <<>>]
    /\ consumers = [i \in Inst |-> <<>>]
    /\ unit_state = [i \in Inst |-> [u \in Units |-> "absent"]]
    /\ trading_config = [i \in Inst |-> NoConfig]
    /\ signal_builders = [sym \in Symbols |-> NoBuilder]
    /\ emitted = 0
    /\ portfolio \in [Inst -> InitialFunds]
    /\ \E f \in FilterChoices : filters = [i \in Inst |-> IF i = "m1" THEN f ELSE NoFilters]
    /\ subscriptions = {}
    /\ received = NoEvent
    /\ trades_db = [i \in Inst |-> <<>>]
    /\ metadata_store = [b \in BotIds |-> 0]
    /\ tasks = [t \in Tasks |-> IdleTask]
    /\ calls = 0
    /\ faulted = FALSE

NextChannels ==
    \/ \E t \in Tasks, i \in Inst : CallInitialize(t, i, EmptyDict)
    \/ \E t \in Tasks : InitializeSteps(t)
    \/ \E i \in Inst, ev \in Events : Publish(i, ev)
    \/ \E t \in Tasks : Return(t)

SpecChannels == InitChannels /\ [][NextChannels]_vars

----------------------------------------------------------------------------
(* The trades callback (lines 261-273) of the consumer registered on the     *)
(* trades channel.  The channel invokes it with each trade it delivers to    *)
(* the consumer; the channel and basic_keywords.store_trade are not part of  *)
(* the sources at hand.                                                      *)

OrderStatus == {"FILLED", "PARTIALLY_FILLED", "CANCELED"}
TradeEvents == [symbol : Symbols, status : OrderStatus]

\* mutant of TradeObserved: every trade is stored, whatever its status
TradeObservedStoresAll(t, i, trade) ==
    /\ CanCall(t)
    /\ TradesSubscription(i) \in subscriptions
    /\ unit_state[i][TradesConsumer] = "started"
    /\ calls' = calls + 1
    /\ tasks' = [tasks EXCEPT ![t] =
                    [NewTask("trades_callback", i) EXCEPT !.trades = <<trade>>, !.pc = "store_trade"]]
    /\ UNCHANGED exchange_manager
    /\ UnchangedSaveState

\* the trades consumer of instance i is handed a trade: line 270, then lines 271-273 up to
\* the await of store_trade
TradeObserved(t, i, trade) ==
    /\ CanCall(t)
    /\ TradesSubscription(i) \in subscriptions
    /\ unit_state[i][TradesConsumer] = "started"
    /\ calls' = calls + 1
    /\ LET tk == [NewTask("trades_callback", i) EXCEPT !.trades = <<trade>>] IN
         tasks' = [tasks EXCEPT ![t] =
                     IF trade.status /= "CANCELED"
                     THEN IF exchange_manager[i] = None
                          THEN Raised(tk, "AttributeError")
                          ELSE [tk EXCEPT !.pc = "store_trade"]
                     ELSE [tk EXCEPT !.pc = "done"]]
    /\ UNCHANGED exchange_manager
    /\ UnchangedSaveState

\* line 273: await store_trade(...) returns, the trade is in the database
StoreTradeDone(t) ==
    /\ tasks[t].pc = "store_trade"
    /\ trades_db' = [trades_db EXCEPT ![tasks[t].inst] = Append(@, tasks[t].trades[1])]
    /\ tasks' = [tasks EXCEPT ![t] = [Logged(@, "store_trade") EXCEPT !.pc = "done"]]
    /\ UNCHANGED <<filters, subscriptions, received, orderVars, managers, exchange_manager,
                   are_metadata_saved, SAVED_RUN_METADATA_DB_BY_BOT_ID, producers, consumers,
                   unit_state, trading_config, metadata_store, faulted, calls>>

\* line 273: await store_trade(...) raises, nothing is written
StoreTradeRaises(t) ==
    /\ tasks[t].pc = "store_trade"
    /\ tasks' = [tasks EXCEPT ![t] = Raised(@, "Error")]
    /\ faulted' = TRUE
    /\ UNCHANGED <<channelVars, orderVars, managers, exchange_manager,
                   are_metadata_saved, SAVED_RUN_METADATA_DB_BY_BOT_ID, producers, consumers,
                   unit_state, trading_config, metadata_store, calls>>

\* two initialized instances that trade live
InitTrades ==
    /\ Init
    /\ \A i \in Inst : managers[i] = [bot_id |-> "X", is_backtesting |-> FALSE]

\* trades are observed while the instances run and while they are being stopped
NextTrades ==
    \/ \E t \in Tasks, i \in Inst, trade \in TradeEvents : TradeObserved(t, i, trade)
    \/ \E t \in Tasks : StoreTradeDone(t)
    \/ \E t \in Tasks : StoreTradeRaises(t)
    \/ \E t \in Tasks, i \in Inst : CallStop(t, i)
    \/ \E t \in Tasks : ProducerStopDone(t)
    \/ \E t \in Tasks : ConsumerStopDone(t)
    \/ \E t \in Tasks : Return(t)

SpecTrades == InitTrades /\ [][NextTrades]_vars

----------------------------------------------------------------------------
(* The order mediator (lines 443-493) inside the remote signal scope (lines *)
(* 426-441).  A consumer runs                                               *)
(*     async with self.remote_signal_publisher(symbol):                     *)
(*         await self.create_order(order)      (or cancel_order, edit_order) *)
(* with order.symbol = symbol.  SignalPublisher, the remote transport and   *)
(* get_order_size_portfolio_percent are not part of the sources at hand:    *)
(* they are modelled from their description.                                *)

TransportErrors == {"AuthenticationRequired", "UnavailableError"}

\* line 60: maximum seconds before sending a trading signal
TRADING_SIGNAL_TIMEOUT == 10

\* how long sending a bundle may take
FlushDurations == {5, 11}
Mediators == {"create_order", "cancel_order", "edit_order"}

\* edited_quantity, edited_price, edited_stop_price, edited_current_price (0 is None)
EditChoices == {<<1, 2, 3, 4>>, <<1, 0, 3, 0>>}

\* lines 152-159: self.trading_config[CONFIG_EMIT_TRADING_SIGNALS], False on KeyError
is_trading_signal_emitter(i) ==
    IF EMIT \in DOMAIN trading_config[i].dict THEN trading_config[i].dict[EMIT] ELSE FALSE

\* mutant of should_emit_trading_signal: the configuration alone decides
should_emit_whatever_the_context(i) == is_trading_signal_emitter(i)

\* line 165
should_emit_trading_signal(i) == ~Manager(i).is_backtesting /\ is_trading_signal_emitter(i)

\* what evaluating line 165 raises: None has no is_backtesting, None is not subscriptable
ShouldEmitError(i) ==
    IF exchange_manager[i] = None THEN "AttributeError"
    ELSE IF ~Manager(i).is_backtesting /\ trading_config[i].is_none THEN "TypeError"
    ELSE None

\* SignalPublisher: a scope on sym is entered, a record is appended, a scope is left
OpenBuilder(sym) == [signal_builders EXCEPT ![sym].users = @ + 1]
AddRecord(sym, r) == [signal_builders EXCEPT ![sym].records = Append(@, r)]
CloseBuilder(sym) ==
    [signal_builders EXCEPT ![sym] = IF @.users = 1 THEN NoBuilder
                                     ELSE [@ EXCEPT !.users = @ - 1]]

\* the last scope on sym is left with records in the bundle: one bundle goes out
Flushes(sym) == signal_builders[sym].users = 1 /\ signal_builders[sym].records /= <<>>

SignalRecord(tk, kind, target, edits) ==
    [kind |-> kind, symbol |-> tk.symbol, quantity |-> tk.quantity, target |-> target,
     edits |-> edits, by |-> tk.id]

\* get_order_size_portfolio_percent: quantity / portfolio * 100, an exact quotient
PortfolioPercent(q, total) == IF total = 0 THEN <<0, 1>> ELSE <<q * 100, total>>

\* mutant of FormatPercent: the percent is printed without the conversion to float
FormatPercentNoFloat(percent) ==
    IF percent[1] % percent[2] = 0
    THEN ToString(percent[1] \div percent[2]) \o "%"
    ELSE ToString(percent[1]) \o "/" \o ToString(percent[2]) \o "%"

\* line 452: f"{float(percent)}%"; a float prints with its fractional part ("25.0"),
\* the digits of a quotient that is not whole are abbreviated as "n/d"
FormatPercent(percent) ==
    IF percent[1] % percent[2] = 0
    THEN ToString(percent[1] \div percent[2]) \o ".0%"
    ELSE ToString(percent[1]) \o "/" \o ToString(percent[2]) \o "%"

\* the value "async with self.remote_signal_publisher(symbol) as signal_builder" binds:
\* the bundle's builder (line 437) or None (line 441)
signal_builder(tk) == IF tk.scope = "active" THEN "signal_builder" ELSE None

\* add_created_order, add_cancelled_order and add_edited_order can be called on v: None
\* has no such attribute
HasMutationMethods(v) == v /= None

\* mutant of BodyRaises: the mediator wraps what the collaborator raised
BodyRaisesWrapped(t, tk, e) ==
    tasks' = [tasks EXCEPT ![t] =
                 IF tk.scope = "active"
                 THEN [tk EXCEPT !.pc = "scope_exit_exc", !.exc = "MediatorError", !.at = tk.pc]
                 ELSE Raised(tk, "MediatorError")]

\* the scope body ends with exception e: it is thrown into the generator at its yield
\* (line 437 inside the bundle's context, line 441 otherwise)
BodyRaises(t, tk, e) ==
    tasks' = [tasks EXCEPT ![t] = IF tk.scope = "active"
                                  THEN [tk EXCEPT !.pc = "scope_exit_exc", !.exc = e, !.at = tk.pc]
                                  ELSE Raised(tk, e)]

\* mutant of BodyReturns: the mediator returns whether a record was enqueued
BodyReturnsEnqueued(t, tk, v) ==
    tasks' = [tasks EXCEPT ![t] =
                [tk EXCEPT !.ret = <<tk.log /= <<>> /\ tk.log[Len(tk.log)] = "add_record">>,
                           !.returned = TRUE,
                           !.pc = IF tk.scope = "active" THEN "scope_exit" ELSE "done"]]

\* lines 460, 468, 493: the mediator returns v; the scope body is over
BodyReturns(t, tk, v) ==
    tasks' = [tasks EXCEPT ![t] =
                [tk EXCEPT !.ret = v, !.returned = TRUE,
                           !.pc = IF tk.scope = "active" THEN "scope_exit" ELSE "done"]]

\* lines 453, 463, 477: self.exchange_manager.trader.<op>(...) is called and awaited
TraderCall(t, tk) ==
    IF exchange_manager[tk.inst] = None
    THEN BodyRaises(t, tk, "AttributeError")
    ELSE tasks' = [tasks EXCEPT ![t] = [tk EXCEPT !.pc =
                      CASE tk.op = "create_order" -> "trader_create"
                        [] tk.op = "cancel_order" -> "trader_cancel"
                        [] tk.op = "edit_order" -> "trader_edit"]]

\* mutant of MediatorStart: create_order goes to the trader without computing the percent
MediatorStartNoPercent(t, tk) ==
    TraderCall(t, IF tk.op = "create_order" THEN [tk EXCEPT !.pf = "0%"] ELSE tk)

\* mutant of MediatorStart: create_order reads the portfolio whatever the signal setting
MediatorStartPercentAlways(t, tk) ==
    IF tk.op = "create_order"
    THEN tasks' = [tasks EXCEPT ![t] = [tk EXCEPT !.pf = "0%", !.pc = "portfolio_percent"]]
    ELSE TraderCall(t, tk)

\* the scope body starts: lines 444-446 of create_order, lines 463 and 477 of the others
MediatorStart(t, tk) ==
    IF tk.op = "create_order"
    THEN LET tk0 == [tk EXCEPT !.pf = "0%"] IN
         IF ShouldEmitError(tk.inst) /= None
         THEN BodyRaises(t, tk0, ShouldEmitError(tk.inst))
         ELSE IF should_emit_trading_signal(tk.inst)
              THEN tasks' = [tasks EXCEPT ![t] = [tk0 EXCEPT !.pc = "portfolio_percent"]]
              ELSE TraderCall(t, tk0)
    ELSE TraderCall(t, tk)

\* mutant of EnqueueAndReturn: the record is enqueued whatever the collaborator reported
EnqueueAlways(t, tk, success, emit_first, r, v) ==
    IF should_emit_trading_signal(tk.inst)
    THEN /\ signal_builders' = AddRecord(tk.symbol, r)
         /\ BodyReturns(t, Logged(tk, "add_record"), v)
    ELSE BodyReturns(t, tk, v) /\ UNCHANGED signal_builders

\* lines 456-459, 464-467, 478-492: enqueue the record if the guard holds, then return.
\* emit_first tells which operand of the guard is evaluated first.  Fixes tasks' and
\* signal_builders'.
EnqueueAndReturn(t, tk, success, emit_first, r, v) ==
    LET evaluated == IF emit_first THEN TRUE ELSE success IN
    IF evaluated /\ ShouldEmitError(tk.inst) /= None
    THEN BodyRaises(t, tk, ShouldEmitError(tk.inst)) /\ UNCHANGED signal_builders
    ELSE IF success /\ should_emit_trading_signal(tk.inst)
         THEN IF signal_builders[tk.symbol].users = 0
              THEN BodyRaises(t, tk, "KeyError") /\ UNCHANGED signal_builders
              ELSE /\ signal_builders' = AddRecord(tk.symbol, r)
                   /\ BodyReturns(t, Logged(tk, "add_record"), v)
         ELSE BodyReturns(t, tk, v) /\ UNCHANGED signal_builders

\* mutant of EnterScope: the bundle is opened without a timeout
EnterScopeNoTimeout(tk) == [tk EXCEPT !.pc = "scope_enter"]

\* lines 430-436: the bundle is opened for the symbol with self.TRADING_SIGNAL_TIMEOUT
EnterScope(tk) == [tk EXCEPT !.pc = "scope_enter", !.timeout = TRADING_SIGNAL_TIMEOUT]

UnchangedByOrders ==
    UNCHANGED <<channelVars, managers, exchange_manager, are_metadata_saved, SAVED_RUN_METADATA_DB_BY_BOT_ID,
                producers, consumers, unit_state, trading_config, metadata_store>>

\* a consumer enters remote_signal_publisher(sym) around one mediator call: lines 428-429
\* up to the await that opens the bundle, or line 441 and the start of the body
CallOrder(t, i, op, sym, q, ed) ==
    /\ FirstIdle(t)
    /\ calls < MaxOrders
    /\ calls' = calls + 1
    /\ LET tk == [IdleTask EXCEPT !.op = op, !.inst = i, !.pc = "call", !.symbol = sym,
                                  !.quantity = q, !.edits = ed, !.id = calls + 1] IN
         IF ShouldEmitError(i) /= None
         THEN tasks' = [tasks EXCEPT ![t] = Raised(tk, ShouldEmitError(i))]
         ELSE IF should_emit_trading_signal(i)
              THEN tasks' = [tasks EXCEPT ![t] = EnterScope(tk)]
              ELSE MediatorStart(t, [tk EXCEPT !.scope = "noop"])
    /\ UNCHANGED <<channelVars, orderVars, faulted>>
    /\ UnchangedByOrders

\* the bundle is open: line 437 yields its builder and the body starts
ScopeEnterDone(t) ==
    /\ tasks[t].pc = "scope_enter"
    /\ signal_builders' = OpenBuilder(tasks[t].symbol)
    /\ MediatorStart(t, [Logged(tasks[t], "scope_enter") EXCEPT !.scope = "active"])
    /\ UNCHANGED <<emitted, portfolio, faulted, calls>>
    /\ UnchangedByOrders

\* lines 446-453: the percent of the portfolio is back, the order goes to the trader
PortfolioPercentDone(t) ==
    /\ tasks[t].pc = "portfolio_percent"
    /\ LET tk == tasks[t]
           percent == PortfolioPercent(tk.quantity, portfolio[tk.inst]) IN
         TraderCall(t, [Logged(tk, "portfolio_percent") EXCEPT !.pf = FormatPercent(percent)])
    /\ UNCHANGED <<channelVars, orderVars, faulted, calls>>
    /\ UnchangedByOrders

\* lines 453-460: trader.create_order has answered with created (<<>> is None); the
\* trader takes the funds of an order it created
TraderCreateDone(t, created) ==
    /\ tasks[t].pc = "trader_create"
    /\ LET tk == [Logged(tasks[t], "trader") EXCEPT !.result = created] IN
         /\ created \in {<<>>} \cup (IF tk.quantity <= portfolio[tk.inst]
                                     THEN {<<tk.symbol, tk.quantity>>} ELSE {})
         /\ portfolio' = IF created = <<>> THEN portfolio
                         ELSE [portfolio EXCEPT ![tk.inst] = @ - tk.quantity]
         /\ EnqueueAndReturn(t, tk, created /= <<>>, FALSE,
                             SignalRecord(tk, "created", tk.pf, <<>>), created)
    /\ UNCHANGED <<emitted, faulted, calls>>
    /\ UnchangedByOrders

\* lines 463-468: trader.cancel_order has answered
TraderCancelDone(t, cancelled) ==
    /\ tasks[t].pc = "trader_cancel"
    /\ LET tk == [Logged(tasks[t], "trader") EXCEPT !.result = <<cancelled>>] IN
         EnqueueAndReturn(t, tk, cancelled, TRUE,
                          SignalRecord(tk, "cancelled", None, <<>>), <<cancelled>>)
    /\ UNCHANGED <<emitted, portfolio, faulted, calls>>
    /\ UnchangedByOrders

\* mutant of EditedFields: the limit price and the stop price change places
EditedFieldsSwapped(ed) ==
    [updated_target_amount |-> ed[1], updated_limit_price |-> ed[3],
     updated_stop_price |-> ed[2], updated_current_price |-> ed[4]]

\* lines 487-492: the keyword arguments of add_edited_order, from the caller's
\* <<edited_quantity, edited_price, edited_stop_price, edited_current_price>>
EditedFields(ed) ==
    [updated_target_amount |-> ed[1], updated_limit_price |-> ed[2],
     updated_stop_price |-> ed[3], updated_current_price |-> ed[4]]

\* lines 477-493: trader.edit_order has answered
TraderEditDone(t, changed) ==
    /\ tasks[t].pc = "trader_edit"
    /\ LET tk == [Logged(tasks[t], "trader") EXCEPT !.result = <<changed>>] IN
         EnqueueAndReturn(t, tk, changed, TRUE,
                          SignalRecord(tk, "edited", None, EditedFields(tk.edits)), <<changed>>)
    /\ UNCHANGED <<emitted, portfolio, faulted, calls>>
    /\ UnchangedByOrders

\* the bundle's context has exited after a body that returned: the scope is over
ScopeExitDone(t) ==
    /\ tasks[t].pc = "scope_exit"
    /\ signal_builders' = CloseBuilder(tasks[t].symbol)
    /\ emitted' = IF Flushes(tasks[t].symbol) THEN emitted + 1 ELSE emitted
    /\ tasks' = [tasks EXCEPT ![t] = [Logged(@, "scope_exit") EXCEPT !.pc = "done"]]
    /\ UNCHANGED <<portfolio, faulted, calls>>
    /\ UnchangedByOrders

\* sending the bundle would take d, more than the timeout the bundle was opened with: the
\* publisher drops the bundle with a warning and the scope is left as if it had been sent
FlushTimesOut(t, d) ==
    /\ tasks[t].pc = "scope_exit"
    /\ Flushes(tasks[t].symbol)
    /\ d > tasks[t].timeout
    /\ signal_builders' = CloseBuilder(tasks[t].symbol)
    /\ tasks' = [tasks EXCEPT ![t] = [Logged(@, "flush_timeout") EXCEPT !.pc = "done"]]
    /\ UNCHANGED <<emitted, portfolio, faulted, calls>>
    /\ UnchangedByOrders

\* the bundle's context has exited after a body that raised: the body's exception goes on
\* through line 438, which catches the transport's two exceptions only
ScopeExitExcDone(t) ==
    /\ tasks[t].pc = "scope_exit_exc"
    /\ signal_builders' = CloseBuilder(tasks[t].symbol)
    /\ emitted' = IF Flushes(tasks[t].symbol) THEN emitted + 1 ELSE emitted
    /\ tasks' = [tasks EXCEPT ![t] =
                    IF tasks[t].exc \in TransportErrors
                    THEN [Logged(@, "logged_failure") EXCEPT !.pc = "done"]
                    ELSE [Logged(@, "scope_exit") EXCEPT !.pc = "raised"]]
    /\ UNCHANGED <<portfolio, faulted, calls>>
    /\ UnchangedByOrders

\* lines 430-439 when opening the bundle raises e: the transport's exceptions are caught
\* and logged (lines 438-439) and the generator ends without having yielded, which
\* contextlib reports to the caller as RuntimeError("generator didn't yield")
ScopeEnterFails(t, tk, e) ==
    tasks' = [tasks EXCEPT ![t] =
                 IF e \in TransportErrors
                 THEN Raised(Logged(tk, "logged_failure"), "RuntimeError")
                 ELSE Raised(tk, e)]

\* an awaited call of the order path raises e
OrderAwaitRaises(t, e) ==
    /\ faulted' = TRUE
    /\ LET tk == tasks[t] IN
         CASE tk.pc \in {"portfolio_percent", "trader_create", "trader_cancel", "trader_edit"} ->
                /\ e = "Error"
                /\ BodyRaises(t, tk, e)
                /\ UNCHANGED signal_builders
           [] tk.pc = "scope_enter" ->
                /\ ScopeEnterFails(t, tk, e)
                /\ UNCHANGED signal_builders
           [] tk.pc = "scope_exit" ->
                \* the flush failed after the body returned: lines 438-439 swallow the
                \* transport's exceptions, anything else reaches the caller
                /\ signal_builders' = CloseBuilder(tk.symbol)
                /\ tasks' = [tasks EXCEPT ![t] =
                                IF e \in TransportErrors
                                THEN [Logged(tk, "logged_failure") EXCEPT !.pc = "done"]
                                ELSE Raised(tk, e)]
           [] tk.pc = "scope_exit_exc" ->
                \* the flush failed after the body raised: e replaces the body's exception;
                \* caught at line 438 the generator ends and the body's exception is dropped
                /\ signal_builders' = CloseBuilder(tk.symbol)
                /\ tasks' = [tasks EXCEPT ![t] =
                                IF e \in TransportErrors
                                THEN [Logged(tk, "logged_failure") EXCEPT !.pc = "done"]
                                ELSE Raised(tk, e)]
           [] OTHER -> FALSE
    /\ UNCHANGED <<emitted, portfolio, calls>>
    /\ UnchangedByOrders

\* two initialized instances: m1 trades live with any of the configurations, m2 is a
\* backtesting instance configured to emit
InitOrders ==
    /\ managers = [i \in Inst |-> [bot_id |-> "X", is_backtesting |-> i /= "m1"]]
    /\ exchange_manager = [i \in Inst |-> i]
    /\ are_metadata_saved = [i \in Inst |-> FALSE]
    /\ SAVED_RUN_METADATA_DB_BY_BOT_ID = <<>>
    /\ producers = [i \in Inst |-> MODE_PRODUCER_CLASSES]
    /\ consumers = [i \in Inst |-> InitializedConsumers(i)]
    /\ unit_state = [i \in Inst |-> [u \in Units |->
                        IF u \in Range(producers[i]) \cup Range(consumers[i])
                        THEN "started" ELSE "absent"]]
    /\ \E cfg \in ConfigChoices :
          trading_config = [i \in Inst |-> Loaded(IF i = "m1" THEN cfg ELSE [key \in {EMIT} |-> TRUE])]
    /\ signal_builders = [sym \in Symbols |-> NoBuilder]
    /\ emitted = 0
    /\ portfolio \in [Inst -> InitialFunds]
    /\ filters = [i \in Inst |-> NoFilters]
    /\ subscriptions = InitializedSubscriptions
    /\ received = NoEvent
    /\ trades_db = [i \in Inst |-> <<>>]
    /\ metadata_store = [b \in BotIds |-> 0]
    /\ tasks = [t \in Tasks |-> IdleTask]
    /\ calls = 0
    /\ faulted = FALSE

NextOrders ==
    \/ \E t \in Tasks, i \in Inst, sym \in Symbols, q \in Quantities :
           CallOrder(t, i, "create_order", sym, q, <<>>)
    \/ \E t \in Tasks, i \in Inst, sym \in Symbols :
           CallOrder(t, i, "cancel_order", sym, OpenOrderQuantity, <<>>)
    \/ \E t \in Tasks, i \in Inst, sym \in Symbols, ed \in EditChoices :
           CallOrder(t, i, "edit_order", sym, OpenOrderQuantity, ed)
    \/ \E t \in Tasks : ScopeEnterDone(t)
    \/ \E t \in Tasks : PortfolioPercentDone(t)
    \/ \E t \in Tasks, created \in {<<>>} \cup (Symbols \X Quantities) : TraderCreateDone(t, created)
    \/ \E t \in Tasks, cancelled \in BOOLEAN : TraderCancelDone(t, cancelled)
    \/ \E t \in Tasks, changed \in BOOLEAN : TraderEditDone(t, changed)
    \/ \E t \in Tasks : ScopeExitDone(t)
    \/ \E t \in Tasks, d \in FlushDurations : FlushTimesOut(t, d)
    \/ \E t \in Tasks : ScopeExitExcDone(t)
    \/ \E t \in Tasks, e \in TransportErrors \cup {"Error"} : OrderAwaitRaises(t, e)
    \/ \E t \in Tasks : Return(t)

SpecOrders == InitOrders /\ [][NextOrders]_vars

\* a caller invokes reload_config() on instance i: lines 352-357, the configuration read
\* from the tentacles setup replaces self.trading_config, then the user inputs are awaited
CallReloadConfig(t, i, cfg) ==
    /\ CanCall(t)
    /\ calls' = calls + 1
    /\ IF exchange_manager[i] = None
       THEN /\ tasks' = [tasks EXCEPT ![t] = Raised(NewTask("reload_config", i), "AttributeError")]
            /\ UNCHANGED trading_config
       ELSE /\ trading_config' = [trading_config EXCEPT ![i] = Loaded(cfg)]
            /\ tasks' = [tasks EXCEPT ![t] =
                            [NewTask("reload_config", i) EXCEPT !.pc = "reload_user_inputs"]]
    /\ UNCHANGED <<channelVars, orderVars, managers, exchange_manager, are_metadata_saved,
                   SAVED_RUN_METADATA_DB_BY_BOT_ID, producers, consumers, unit_state,
                   metadata_store, faulted>>

\* line 357 returns; lines 358-361 tell the producers and consumers, reload_config() returns
ReloadConfigDone(t) ==
    /\ tasks[t].pc = "reload_user_inputs"
    /\ tasks' = [tasks EXCEPT ![t] = [Logged(@, "load_and_save_user_inputs") EXCEPT !.pc = "done"]]
    /\ UNCHANGED <<exchange_manager, calls>>
    /\ UnchangedSaveState

\* orders in flight while the configuration is reloaded
NextOrdersReload ==
    \/ NextOrders
    \/ \E t \in Tasks, i \in Inst, cfg \in ConfigChoices : CallReloadConfig(t, i, cfg)
    \/ \E t \in Tasks : ReloadConfigDone(t)

SpecOrdersReload == InitOrders /\ [][NextOrdersReload]_vars

\* orders in flight while stop() and save_backtesting_data() are called on the instances
NextOrdersStop == NextOrders \/ Next

SpecOrdersStop == InitOrders /\ [][NextOrdersStop]_vars

----------------------------------------------------------------------------
(* Strategy related class methods (lines 380-405).  They are synchronous: a  *)
(* call is one action.  tentacles_manager_api.get_tentacle_config answers    *)
(* with the stored configuration of the mode class, an input of the call.    *)

TRADING_MODE_REQUIRED_STRATEGIES == "required_strategies"
TRADING_MODE_REQUIRED_STRATEGIES_MIN_COUNT == "required_strategies_min_count"
TENTACLE_DEFAULT_CONFIG == "default_config"

StrategyKeys == {TRADING_MODE_REQUIRED_STRATEGIES, TRADING_MODE_REQUIRED_STRATEGIES_MIN_COUNT,
                 TENTACLE_DEFAULT_CONFIG}

\* the configurations holding any of the three entries, with the given values
StrategyConfigs(required, min_count, default) ==
    {[key \in present |->
        CASE key = TRADING_MODE_REQUIRED_STRATEGIES -> required
          [] key = TRADING_MODE_REQUIRED_STRATEGIES_MIN_COUNT -> min_count
          [] OTHER -> default] : present \in SUBSET StrategyKeys}

\* what is stored for the mode class, and what a caller passes as trading_mode_config
\* (None, an empty dict or a dict with entries)
StoredConfigs == StrategyConfigs(<<"StoredStrategy">>, 2, <<"StoredDefault">>)
PassedConfigs == {NoConfig} \cup
                 {Loaded(d) : d \in StrategyConfigs(<<"PassedStrategy">>, 3, <<"PassedDefault">>)}

\* lines 384 and 393: trading_mode_config or get_tentacle_config(tentacles_config, cls);
\* None and the empty dict are falsy
ConfigOr(trading_mode_config, stored) ==
    IF ~trading_mode_config.is_none /\ DOMAIN trading_mode_config.dict /= {}
    THEN trading_mode_config.dict ELSE stored

\* line 387
MissingRequiredStrategies ==
    "Exception: 'required_strategies' is missing in configuration file"

\* what a call gives back: the value it returns, or the exception it raises
Returns(v) == [exc |-> None, ret |-> v]
Raises(e) == [exc |-> e, ret |-> <<>>]

\* mutant of get_required_strategies_count: the configured minimum is ignored
get_required_strategies_count_ignored(config) == 1

\* lines 400-405
get_required_strategies_count(config) ==
    IF TRADING_MODE_REQUIRED_STRATEGIES_MIN_COUNT \in DOMAIN config
    THEN config[TRADING_MODE_REQUIRED_STRATEGIES_MIN_COUNT]
    ELSE 1

\* lines 380-387
get_required_strategies_names_and_count(stored, trading_mode_config) ==
    LET config == ConfigOr(trading_mode_config, stored) IN
      IF TRADING_MODE_REQUIRED_STRATEGIES \in DOMAIN config
      THEN Returns(<<config[TRADING_MODE_REQUIRED_STRATEGIES],
                     get_required_strategies_count(config)>>)
      ELSE Raises(MissingRequiredStrategies)

\* lines 389-398; line 397 hands the configuration it settled on to
\* get_required_strategies_names_and_count, which applies "or" to it again
get_default_strategies(stored, trading_mode_config) ==
    LET config == ConfigOr(trading_mode_config, stored) IN
      IF TENTACLE_DEFAULT_CONFIG \in DOMAIN config
      THEN Returns(<<config[TENTACLE_DEFAULT_CONFIG]>>)
      ELSE LET required == get_required_strategies_names_and_count(stored, Loaded(config)) IN
             IF required.exc /= None THEN required ELSE Returns(<<required.ret[1]>>)

\* the call has run: it returned or raised
StrategiesCalled(t, op, stored, passed, outcome) ==
    /\ CanCall(t)
    /\ LET tk == [tasks[t] EXCEPT !.op = op, !.tentacle_config = stored,
                                  !.trading_mode_config = passed] IN
         tasks' = [tasks EXCEPT ![t] =
                     IF outcome.exc /= None
                     THEN Raised(tk, outcome.exc)
                     ELSE [tk EXCEPT !.pc = "done", !.ret = outcome.ret, !.returned = TRUE]]
    /\ calls' = calls + 1
    /\ UNCHANGED exchange_manager
    /\ UnchangedSaveState

CallGetRequiredStrategies(t, stored, passed) ==
    StrategiesCalled(t, "get_required_strategies_names_and_count", stored, passed,
                     get_required_strategies_names_and_count(stored, passed))

CallGetDefaultStrategies(t, stored, passed) ==
    StrategiesCalled(t, "get_default_strategies", stored, passed,
                     get_default_strategies(stored, passed))

InitStrategies ==
    /\ Init
    /\ \A i \in Inst : managers[i] = [bot_id |-> "X", is_backtesting |-> FALSE]

NextStrategies ==
    \/ \E t \in Tasks, stored \in StoredConfigs, passed \in PassedConfigs :
          CallGetRequiredStrategies(t, stored, passed)
    \/ \E t \in Tasks, stored \in StoredConfigs, passed \in PassedConfigs :
          CallGetDefaultStrategies(t, stored, passed)
    \/ \E t \in Tasks : Return(t)

SpecStrategies == InitStrategies /\ [][NextStrategies]_vars

----------------------------------------------------------------------------
(* get_backtesting_metadata (lines 564-650): the trade statistics of the     *)
(* record.  The trade history and the win rate come from trading_api; the    *)
(* win rate is the share of won trades among the closed ones, a fraction     *)
(* <<won, closed>> between 0 and 1.  Numbers with three decimals are held as *)
(* thousandths.                                                              *)

\* Python's round(): to the nearest integer, a tie to the even one
Round(num, den) ==
    LET q == num \div den
        r == num % den IN
      IF 2 * r < den THEN q
      ELSE IF 2 * r > den THEN q + 1
      ELSE IF q % 2 = 0 THEN q ELSE q + 1

Trade(status, side) == [status |-> status, side |-> side]

\* what trading_api.get_trade_history answers with: n filled buys among other trades
OtherTrades == {<<>>, <<Trade("FILLED", "SELL")>>, <<Trade("CANCELED", "BUY")>>,
                <<Trade("CANCELED", "BUY"), Trade("FILLED", "SELL")>>}
TradeHistories ==
    {other \o [k \in 1..n |-> Trade("FILLED", "BUY")] : n \in 0..MaxEntries, other \in OtherTrades}

\* what trading_api.get_win_rate answers with
WinRates == {rate \in (0..MaxClosedTrades) \X (1..MaxClosedTrades) : rate[1] <= rate[2]}

\* lines 602-606
IsEntry(trade) == trade.status = "FILLED" /\ trade.side = "BUY"
entries(trades) == SelectSeq(trades, IsEntry)

\* line 607: round(float(get_win_rate * 100), 3), in thousandths
win_rate(rate) == Round(rate[1] * 100 * 1000, rate[2])

\* mutant of wins: the product is truncated
wins_truncated(trades, rate) == (win_rate(rate) * Len(entries(trades))) \div (100 * 1000)

\* line 608: round(win_rate * len(entries) / 100)
wins(trades, rate) == Round(win_rate(rate) * Len(entries(trades)), 100 * 1000)

\* lines 625 and 637-640 of the record
BacktestingMetadata(trades, rate) ==
    [win_rate |-> win_rate(rate),
     entries |-> Len(entries(trades)),
     wins |-> wins(trades, rate),
     loses |-> Len(entries(trades)) - wins(trades, rate),
     trades |-> Len(trades)]

\* get_backtesting_metadata has built the record of a run with this history and win rate
GetBacktestingMetadata(t, i, trades, rate) ==
    /\ CanCall(t)
    /\ \A u \in Tasks : tasks[u].op = "idle"
    /\ managers[i].is_backtesting
    /\ tasks' = [tasks EXCEPT ![t] =
                    [IdleTask EXCEPT !.op = "get_backtesting_metadata", !.inst = i,
                                     !.pc = "done", !.trades = trades, !.rate = rate,
                                     !.ret = <<BacktestingMetadata(trades, rate)>>,
                                     !.returned = TRUE]]
    /\ calls' = calls + 1
    /\ UNCHANGED exchange_manager
    /\ UnchangedSaveState

InitMetadata ==
    /\ Init
    /\ \A i \in Inst : managers[i] = [bot_id |-> "X", is_backtesting |-> TRUE]

NextMetadata ==
    \/ \E t \in Tasks, i \in Inst :
          /\ CanCall(t) /\ \A u \in Tasks : tasks[u].op = "idle"
          /\ \E trades \in TradeHistories, rate \in WinRates :
                GetBacktestingMetadata(t, i, trades, rate)
    \/ \E t \in Tasks : Return(t)

SpecMetadata == InitMetadata /\ [][NextMetadata]_vars

----------------------------------------------------------------------------
(* ccxt_client_util: create_client (lines 31-73), get_unauthenticated_exchange *)
(* (98-101) and set_sandbox_mode (104-113).  They are synchronous: a call is   *)
(* one action.  What the exchange manager answers and whether a call into     *)
(* ccxt raises are inputs of the call.                                        *)

Outcomes == {"ok", "raises"}

\* the inputs of create_client: the exchange manager's attributes and answers, the
\* arguments, and the outcome of each call that can raise
ClientInputs ==
    [ignore_config : BOOLEAN, check_config : BOOLEAN,
     get_exchange_credentials : Outcomes,
     keys_adapter : {"none"} \cup Outcomes,
     should_authenticate : BOOLEAN, is_backtesting : BOOLEAN,
     check_credentials : BOOLEAN,
     exchange_class : Outcomes,
     checkRequiredCredentials : Outcomes,
     unauthenticated_exchange_fallback : {"none"} \cup Outcomes,
     get_unauthenticated_exchange : Outcomes]

\* lines 98-101
get_unauthenticated_exchange(a) ==
    IF a.get_unauthenticated_exchange = "raises"
    THEN Raises("Error")
    ELSE Returns(<<"unauthenticated">>)

\* mutant of ExceptClause: the flag set at line 57 is returned with the fallback client
ExceptClauseKeepsFlag(a, is_authenticated) ==
    IF a.unauthenticated_exchange_fallback = "none"
    THEN LET client == get_unauthenticated_exchange(a) IN
           IF client.exc /= None THEN client ELSE Returns(<<client.ret[1], is_authenticated>>)
    ELSE IF a.unauthenticated_exchange_fallback = "raises"
         THEN Raises("Error")
         ELSE Returns(<<"fallback", is_authenticated>>)

\* lines 62-67: whatever was raised in the try block, the fallback client and False
ExceptClause(a, is_authenticated) ==
    IF a.unauthenticated_exchange_fallback = "none"
    THEN LET client == get_unauthenticated_exchange(a) IN
           IF client.exc /= None THEN client ELSE Returns(<<client.ret[1], FALSE>>)
    ELSE IF a.unauthenticated_exchange_fallback = "raises"
         THEN Raises("Error")
         ELSE Returns(<<"fallback", FALSE>>)

\* lines 40-73; the log lines (44, 52, 70) and lines 71-72 change nothing of the result
create_client(a) ==
    IF a.ignore_config \/ a.check_config
    THEN IF a.get_exchange_credentials = "raises" THEN ExceptClause(a, FALSE)
         ELSE IF a.keys_adapter = "raises" THEN ExceptClause(a, FALSE)
         ELSE IF a.should_authenticate /\ ~a.is_backtesting
              THEN IF a.exchange_class = "raises" THEN ExceptClause(a, FALSE)
                   ELSE IF a.check_credentials /\ a.checkRequiredCredentials = "raises"
                        THEN ExceptClause(a, TRUE)
                        ELSE Returns(<<"credentialed", TRUE>>)
              ELSE IF a.exchange_class = "raises" THEN ExceptClause(a, FALSE)
                   ELSE Returns(<<"anonymous", FALSE>>)
    ELSE LET client == get_unauthenticated_exchange(a) IN
           IF client.exc /= None THEN client ELSE Returns(<<client.ret[1], FALSE>>)

\* the inputs of set_sandbox_mode: is_sandboxed, what client.setSandboxMode does, and
\* whether client.options holds a defaultType
SandboxInputs ==
    [is_sandboxed : BOOLEAN, setSandboxMode : {"ok", "NotSupported", "Error"},
     defaultType : BOOLEAN]

\* mutant of set_sandbox_mode: the NotSupported error is logged and dropped
set_sandbox_mode_lenient(a) ==
    IF a.setSandboxMode = "NotSupported"
    THEN [Returns(<<None>>) EXCEPT !.ret = <<None, "warning">>]
    ELSE IF a.setSandboxMode = "Error" THEN Raises("Error") ELSE Returns(<<None>>)

\* lines 104-113: the second part of ret is what was logged on the way
set_sandbox_mode(a) ==
    IF a.setSandboxMode = "NotSupported"
    THEN [Raises("NotSupported") EXCEPT !.ret = <<None, "warning">>]
    ELSE IF a.setSandboxMode = "Error" THEN Raises("Error") ELSE Returns(<<None>>)

\* the call has run: it returned or raised
UtilCalled(t, op, a, outcome) ==
    /\ CanCall(t)
    /\ \A u \in Tasks : tasks[u].op = "idle"
    /\ LET tk == [IdleTask EXCEPT !.op = op, !.args = <<a>>, !.ret = outcome.ret] IN
         tasks' = [tasks EXCEPT ![t] =
                     IF outcome.exc /= None
                     THEN Raised(tk, outcome.exc)
                     ELSE [tk EXCEPT !.pc = "done", !.returned = TRUE]]
    /\ calls' = calls + 1
    /\ UNCHANGED exchange_manager
    /\ UnchangedSaveState

CallCreateClient(t, a) == UtilCalled(t, "create_client", a, create_client(a))

CallSetSandboxMode(t, a) == UtilCalled(t, "set_sandbox_mode", a, set_sandbox_mode(a))

InitClient ==
    /\ Init
    /\ \A i \in Inst : managers[i] = [bot_id |-> "X", is_backtesting |-> FALSE]

NextClient ==
    \/ \E t \in Tasks :
          /\ CanCall(t) /\ \A u \in Tasks : tasks[u].op = "idle"
          /\ \E a \in ClientInputs : CallCreateClient(t, a)
    \/ \E t \in Tasks, a \in SandboxInputs : CallSetSandboxMode(t, a)
    \/ \E t \in Tasks : Return(t)

SpecClient == InitClient /\ [][NextClient]_vars

----------------------------------------------------------------------------
(* Properties of stop() and save_backtesting_data(), checked under Spec *)

Finished(t) == tasks[t].pc \in {"done", "raised"}
InLog(t, ev) == \E n \in 1..Len(tasks[t].log) : tasks[t].log[n] = ev
CountLog(t, ev) == Cardinality({n \in 1..Len(tasks[t].log) : tasks[t].log[n] = ev})
BacktestingStop(t) == tasks[t].op = "stop" /\ managers[tasks[t].inst].is_backtesting

\* C1: as long as no storage call has failed, every stop() issued in a backtesting context
\* completes, the metadata record of its bot-run id is written at most once, and the
\* SavedFlag entry of that id is True once the call has completed.
C1_StopSequenceSavesOnce ==
    ~faulted =>
        \A t \in Tasks : BacktestingStop(t) =>
            /\ tasks[t].pc /= "raised"
            /\ metadata_store[BotOf(tasks[t].inst)] <= 1
            /\ (tasks[t].pc = "done" =>
                    DictGet(SAVED_RUN_METADATA_DB_BY_BOT_ID, BotOf(tasks[t].inst)))

\* C2: as long as no storage call has failed, once two stop() invocations for the same
\* bot-run id (backtesting) have both finished, the store holds exactly one metadata
\* record for that id, written by at most one of the two.
C2_ConcurrentStopsOneRecord ==
    ~faulted =>
        \A t, u \in Tasks :
            ( /\ t /= u
              /\ BacktestingStop(t) /\ BacktestingStop(u)
              /\ Finished(t) /\ Finished(u)
              /\ BotOf(tasks[t].inst) = BotOf(tasks[u].inst) ) =>
            /\ metadata_store[BotOf(tasks[t].inst)] = 1
            /\ ~(InLog(t, "save_metadata") /\ InLog(u, "save_metadata"))

\* the step in which a call leaves the guarded block with an exception leaves the flag of
\* its bot-run id False
C3_FlagResetOnRaise ==
    \A t \in Tasks :
        (tasks[t].pc \in Guarded /\ tasks'[t].pc = "raised") =>
            ~DictGet(SAVED_RUN_METADATA_DB_BY_BOT_ID', tasks[t].run)

\* a call made on an instance after such a failure starts the pipeline again
C3_RetryRunsAgain ==
    \A t, u \in Tasks, i \in Inst :
        ( /\ tasks[u].pc = "raised" /\ tasks[u].at \in Guarded /\ tasks[u].inst = i
          /\ exchange_manager[i] /= None
          /\ CallSave(t, i) ) =>
        tasks'[t].pc = "flush"

\* C3: when an exception leaves the guarded block of save_backtesting_data, the SavedFlag
\* entry of that bot-run id is False as the exception propagates; and a later
\* save_backtesting_data call on that instance runs the pipeline again.
C3_WriteFailureIsRetryable == [][C3_FlagResetOnRaise /\ C3_RetryRunsAgain]_vars

StorageEvents == {"flush", "get_user_inputs", "save_transactions", "save_trades",
                  "writer_enter", "get_backtesting_metadata", "save_metadata", "writer_exit"}
MetadataEvents == {"writer_enter", "get_backtesting_metadata", "save_metadata", "writer_exit"}
LogEvents(t) == {tasks[t].log[n] : n \in 1..Len(tasks[t].log)}

\* C4 (as claimed): a save_backtesting_data call (direct, or made by stop()) that finds the
\* SavedFlag of its bot-run id succeeded performs no storage operation at all.
C4_SucceededSkipsEverything ==
    \A t \in Tasks :
        tasks[t].succeeded => LogEvents(t) \cap StorageEvents = {}

\* C4 (amended): such a call never enters the writer, computes the metadata or writes the
\* record, and never touches the flag; it performs no storage operation at all when the
\* instance's own are_metadata_saved was True (or its exchange_manager None) at the call.
C4_SucceededSkipsMetadata ==
    \A t \in Tasks :
        tasks[t].succeeded =>
            /\ LogEvents(t) \cap MetadataEvents = {}
            /\ tasks[t].pc \notin Guarded
            /\ DictGet(SAVED_RUN_METADATA_DB_BY_BOT_ID, BotOf(tasks[t].inst))
            /\ (tasks[t].saved => LogEvents(t) \cap StorageEvents = {})

\* C4 witness: a call that found the flag succeeded got as far as the flag check of
\* line 509 (its instance had not saved itself) and returned without writing.
C4_Witness ==
    \E t \in Tasks :
        /\ tasks[t].succeeded /\ ~tasks[t].saved
        /\ tasks[t].op = "save" /\ tasks[t].pc = "done"
        /\ InLog(t, "save_trades")

Rank(ev) ==
    CASE ev = "producer_stop" -> 2
      [] ev = "consumer_stop" -> 3
      [] ev = "release" -> 4
      [] OTHER -> 1

PreFlagEvents == {"flush", "get_user_inputs", "save_transactions", "save_trades"}

\* the save made by this stop() has returned: it skipped at line 496, skipped at the flag
\* of line 509, or wrote and left the writer
SaveReturned(t) == LogEvents(t) \cap StorageEvents \in {{}, PreFlagEvents, StorageEvents}

AllStopped(i, lst) == \A n \in 1..Len(lst) : unit_state[i][lst[n]] = "stopped"

\* C5: each stop() runs save_backtesting_data (backtesting only) to its return, then stops
\* every producer, then every consumer, and only then sets exchange_manager to None; a stop()
\* outside backtesting never invokes the save.
C5_TeardownOrder ==
    /\ \A t \in Tasks : tasks[t].op = "stop" =>
          LET log == tasks[t].log
              i == tasks[t].inst
              tearing == tasks[t].pc \in {"producer_stop", "consumer_stop"}
                            \/ LogEvents(t) \cap {"producer_stop", "consumer_stop", "release"} /= {}
          IN
          /\ \A m, n \in 1..Len(log) : m < n => Rank(log[m]) <= Rank(log[n])
          /\ (managers[i].is_backtesting /\ log /= <<>>) => log[1] = "save_backtesting_data"
          /\ ~managers[i].is_backtesting =>
                LogEvents(t) \cap (StorageEvents \cup {"save_backtesting_data"}) = {}
          /\ tearing => SaveReturned(t)
          /\ (tasks[t].pc = "consumer_stop" \/ InLog(t, "consumer_stop") \/ InLog(t, "release")) =>
                /\ CountLog(t, "producer_stop") = Len(producers[i])
                /\ AllStopped(i, producers[i])
          /\ InLog(t, "release") =>
                /\ CountLog(t, "consumer_stop") = Len(consumers[i])
                /\ tasks[t].pc = "done"
    /\ \A i \in Inst : exchange_manager[i] = None =>
          AllStopped(i, producers[i]) /\ AllStopped(i, consumers[i])

\* C5 witness: a backtesting stop() that wrote the metadata, stopped every producer and
\* consumer, and released the exchange manager.
C5_Witness ==
    \E t \in Tasks :
        /\ BacktestingStop(t) /\ tasks[t].pc = "done"
        /\ InLog(t, "save_metadata") /\ InLog(t, "release")
        /\ CountLog(t, "producer_stop") = NumProducerClasses
        /\ CountLog(t, "consumer_stop") = NumConsumerClasses
        /\ exchange_manager[tasks[t].inst] = None

\* the awaits of save_backtesting_data
SaveAwaits == Guarded \cup {"flush", "get_user_inputs", "save_transactions", "save_trades"}

\* the stop() of task t ended with an exception that came out of save_backtesting_data
StopFailedInSave(t) ==
    tasks[t].op = "stop" /\ tasks[t].pc = "raised" /\ tasks[t].at \in SaveAwaits

\* such a stop() has stopped no producer and no consumer and has not released the
\* exchange manager
C23_TeardownNotStarted ==
    \A t \in Tasks : StopFailedInSave(t) =>
        /\ tasks[t].exc /= None
        /\ LogEvents(t) \cap {"producer_stop", "consumer_stop", "release"} = {}

\* a later stop() on the instance, its exchange manager still held, runs the save again
C23_LaterStopRetriesSave ==
    \A t, u \in Tasks, i \in Inst :
        ( /\ StopFailedInSave(u) /\ tasks[u].inst = i
          /\ exchange_manager[i] /= None
          /\ CallStop(t, i) ) =>
        tasks'[t].pc = "flush"

\* C23: when save_backtesting_data raises inside stop(), the exception propagates to the
\* stop() caller and the teardown has not started (no producer, no consumer stopped, the
\* exchange manager still held), so a later stop() on the same instance retries the save
\* and then performs the full teardown.
C23_FailedSaveLeavesStopRetryable ==
    []C23_TeardownNotStarted /\ [][C23_LaterStopRetriesSave]_vars

\* C26: in every reachable state, an instance whose are_metadata_saved is True has the
\* SavedFlag entry of its bot-run id equal to True, also after leaving the writer scope
\* failed once the record was written.
C26_SavedInstanceImpliesFlag ==
    \A i \in Inst : are_metadata_saved[i] => DictGet(SAVED_RUN_METADATA_DB_BY_BOT_ID, BotOf(i))

\* the entry of bot-run b: absent, False or True
FlagEntry(d, b) == IF b \in DOMAIN d THEN <<d[b]>> ELSE <<>>

\* task t takes the step and is a save attempt for bot-run b
SaveStepFor(t, b) ==
    /\ tasks'[t] /= tasks[t]
    /\ tasks[t].op \in {"stop", "save"} /\ tasks[t].run = b

\* C28: the SavedFlag map is keyed by bot-run id: a step of a save attempt for bot-run A,
\* successful or failed, changes the entry (and the stored record) of A only; the entry of
\* any other bot-run is changed by no step but one of its own save attempts.
C28_FlagKeyedByRun ==
    [][\A b \in BotIds :
          ( \/ FlagEntry(SAVED_RUN_METADATA_DB_BY_BOT_ID', b) /= FlagEntry(SAVED_RUN_METADATA_DB_BY_BOT_ID, b)
            \/ metadata_store'[b] /= metadata_store[b] )
          => \E t \in Tasks : SaveStepFor(t, b)]_vars

\* the save of run X has failed and left its entry False, the record of run Y is written
\* and its entry True
C28_Witness ==
    /\ FlagEntry(SAVED_RUN_METADATA_DB_BY_BOT_ID, "X") = <<FALSE>>
    /\ FlagEntry(SAVED_RUN_METADATA_DB_BY_BOT_ID, "Y") = <<TRUE>>
    /\ metadata_store["Y"] = 1
    /\ \E t \in Tasks : tasks[t].run = "X" /\ tasks[t].pc = "raised" /\ tasks[t].at \in Guarded

----------------------------------------------------------------------------
(* Properties of initialize() and create_producers(), checked under SpecInit *)

RunningProducers(i) ==
    {k \in 1..Len(MODE_PRODUCER_CLASSES) : unit_state[i][MODE_PRODUCER_CLASSES[k]] = "running"}

\* C6: create_producers starts the producers one after the other in MODE_PRODUCER_CLASSES
\* order: while producer k is inside run() every earlier producer has returned from run()
\* and no later one has been instantiated, an instance never has two producers inside
\* run(), and the list assigned to self.producers is one producer per class, in order.
C6_ProducersStartSequentially ==
    /\ \A i \in Inst : Cardinality(RunningProducers(i)) <= 1
    /\ \A t \in Tasks : (tasks[t].op = "initialize" /\ tasks[t].pc = "producer_run") =>
          LET i == tasks[t].inst
              k == tasks[t].k
          IN /\ RunningProducers(i) = {k}
             /\ \A n \in 1..(k - 1) : unit_state[i][MODE_PRODUCER_CLASSES[n]] = "started"
             /\ tasks[t].lst = SubSeq(MODE_PRODUCER_CLASSES, 1, k - 1)
    /\ \A t \in Tasks :
          (tasks[t].op = "initialize"
             /\ tasks[t].pc \in {"new_consumer", "new_trades_consumer", "done"}) =>
          /\ producers[tasks[t].inst] = MODE_PRODUCER_CLASSES
          /\ CountLog(t, "producer_run") = Len(MODE_PRODUCER_CLASSES)

\* C6 witness: the last of at least two producers is inside run(), the first has returned.
C6_Witness ==
    \E t \in Tasks :
        /\ tasks[t].op = "initialize" /\ tasks[t].pc = "producer_run"
        /\ tasks[t].k = Len(MODE_PRODUCER_CLASSES) /\ tasks[t].k >= 2
        /\ unit_state[tasks[t].inst][MODE_PRODUCER_CLASSES[1]] = "started"

----------------------------------------------------------------------------
(* Properties of the order mediator and the signal scope, checked under SpecOrders *)

\* the mode is configured to emit and its exchange manager is not backtesting
SignalsEnabled(i) == ~managers[i].is_backtesting /\ DictGet(trading_config[i].dict, EMIT)

\* the records of the call of task t in the builder of symbol sym
RecordsOf(t, sym) ==
    {n \in 1..Len(signal_builders[sym].records) : signal_builders[sym].records[n].by = tasks[t].id}

\* the mediator of task t has returned and its scope is still open
InScopeAfter(t) == tasks[t].returned /\ tasks[t].pc = "scope_exit"

\* C7: create_order enqueues no created-order record when the collaborator returned None,
\* and exactly one, carrying the percent of portfolio computed for the order, when the
\* collaborator returned an order and signals are enabled.
C7_CreatedRecordIffOrder ==
    \A t \in Tasks : (tasks[t].op = "create_order" /\ InLog(t, "trader")) =>
        /\ tasks[t].result = <<>> =>
              /\ tasks[t].returned
              /\ ~InLog(t, "add_record")
              /\ \A sym \in Symbols : RecordsOf(t, sym) = {}
        /\ (tasks[t].result /= <<>> /\ SignalsEnabled(tasks[t].inst)) =>
              /\ tasks[t].returned
              /\ CountLog(t, "add_record") = 1
              /\ InLog(t, "portfolio_percent")
              /\ InScopeAfter(t) =>
                    /\ Cardinality(RecordsOf(t, tasks[t].symbol)) = 1
                    /\ \A n \in RecordsOf(t, tasks[t].symbol) :
                          LET r == signal_builders[tasks[t].symbol].records[n] IN
                            /\ r.kind = "created"
                            /\ r.quantity = tasks[t].quantity
                            /\ r.target = tasks[t].pf

\* a create that enqueued the record of a quarter of the portfolio next to one that the
\* trader answered with None
C7_Witness ==
    \E t, u \in Tasks :
        /\ tasks[t].op = "create_order" /\ InScopeAfter(t) /\ tasks[t].result /= <<>>
        /\ SignalsEnabled(tasks[t].inst) /\ tasks[t].pf = "25.0%"
        /\ Cardinality(RecordsOf(t, tasks[t].symbol)) = 1
        /\ tasks[u].op = "create_order" /\ InScopeAfter(u) /\ tasks[u].result = <<>>
        /\ SignalsEnabled(tasks[u].inst)

\* C8: with signals enabled, cancel_order enqueues a cancellation record into the builder
\* of the order's symbol if and only if the collaborator's cancel_order returned true.
C8_CancelledRecordIffTrue ==
    \A t \in Tasks :
        (tasks[t].op = "cancel_order" /\ InLog(t, "trader") /\ SignalsEnabled(tasks[t].inst)) =>
            /\ tasks[t].returned
            /\ CountLog(t, "add_record") = (IF tasks[t].result = <<TRUE>> THEN 1 ELSE 0)
            /\ \A sym \in Symbols \ {tasks[t].symbol} : RecordsOf(t, sym) = {}
            /\ InScopeAfter(t) =>
                  /\ Cardinality(RecordsOf(t, tasks[t].symbol)) =
                        (IF tasks[t].result = <<TRUE>> THEN 1 ELSE 0)
                  /\ \A n \in RecordsOf(t, tasks[t].symbol) :
                        signal_builders[tasks[t].symbol].records[n].kind = "cancelled"

\* a cancel that went through next to one the trader refused, on different symbols
C8_Witness ==
    \E t, u \in Tasks :
        /\ tasks[t].op = "cancel_order" /\ InScopeAfter(t) /\ tasks[t].result = <<TRUE>>
        /\ Cardinality(RecordsOf(t, tasks[t].symbol)) = 1
        /\ tasks[u].op = "cancel_order" /\ InScopeAfter(u) /\ tasks[u].result = <<FALSE>>
        /\ tasks[u].symbol /= tasks[t].symbol
        /\ SignalsEnabled(tasks[t].inst) /\ SignalsEnabled(tasks[u].inst)

\* C9: create_order, cancel_order and edit_order return to their caller exactly the value
\* the execution collaborator returned, with signals enabled or not, with a record
\* enqueued or not.
C9_ReturnsCollaboratorValue ==
    \A t \in Tasks : (tasks[t].op \in Mediators /\ InLog(t, "trader")) =>
        /\ tasks[t].returned
        /\ tasks[t].ret = tasks[t].result

\* a create that returned its order with a record enqueued next to an edit that returned
\* true on the backtesting instance, where nothing is enqueued
C9_Witness ==
    \E t, u \in Tasks :
        /\ tasks[t].op = "create_order" /\ tasks[t].returned /\ InLog(t, "add_record")
        /\ tasks[t].ret = <<tasks[t].symbol, tasks[t].quantity>>
        /\ tasks[u].op = "edit_order" /\ tasks[u].returned /\ ~InLog(u, "add_record")
        /\ tasks[u].ret = <<TRUE>> /\ ~SignalsEnabled(tasks[u].inst)

\* opening the bundle of task t failed with one of the transport's exceptions, which
\* line 438 caught and logged
EnterFailed(t) == tasks[t].log /= <<>> /\ tasks[t].log[1] = "logged_failure"

\* C10: when entering the remote signal scope fails because the transport requires
\* authentication or is unavailable, the failure is caught and logged, no exception
\* reaches the caller of the scope and the scope body still executes.
C10_EnterFailureNeverReachesCaller ==
    \A t \in Tasks : EnterFailed(t) =>
        /\ ~(tasks[t].pc = "raised" /\ tasks[t].at = "scope_enter")
        /\ Finished(t) => InLog(t, "trader")

\* the scope of task t has been entered and has bound its value
ScopeEntered(t) == tasks[t].op \in Mediators /\ tasks[t].scope /= None

\* C11: remote_signal_publisher yields an active builder exactly when the mode is
\* configured to emit and its exchange manager is not backtesting; otherwise it opens no
\* bundle and yields a placeholder on which the three mutation methods can be invoked.
C11_ScopeYieldsUsableBuilder ==
    \A t \in Tasks : ScopeEntered(t) =>
        /\ (tasks[t].scope = "active") = SignalsEnabled(tasks[t].inst)
        /\ tasks[t].scope /= "active" => ~InLog(t, "scope_enter")
        /\ HasMutationMethods(signal_builder(tasks[t]))

\* the awaits of the execution collaborator (lines 453, 463, 477)
TraderAwaits == {"trader_create", "trader_cancel", "trader_edit"}

\* the collaborator call of task t raised: the exception left the mediator at that await
TraderRaised(t) == tasks[t].op \in Mediators /\ tasks[t].at \in TraderAwaits

\* C12: when the execution collaborator raises during a create, cancel or edit, that same
\* exception is what the mediator's caller gets and no signal record is enqueued for the
\* mutation.
C12_TraderErrorPropagates ==
    \A t \in Tasks : TraderRaised(t) =>
        /\ tasks[t].exc = "Error"
        /\ ~tasks[t].returned
        /\ ~InLog(t, "add_record")
        /\ \A sym \in Symbols : RecordsOf(t, sym) = {}

\* a cancel and a create whose collaborator call raised, one inside an active scope whose
\* bundle has been closed since, one inside a scope that yielded None
C12_Witness ==
    \E t, u \in Tasks :
        /\ TraderRaised(t) /\ tasks[t].scope = "active" /\ tasks[t].pc = "raised"
        /\ tasks[t].op = "cancel_order" /\ InLog(t, "scope_exit")
        /\ TraderRaised(u) /\ tasks[u].scope = "noop" /\ tasks[u].pc = "raised"
        /\ tasks[u].op = "create_order"

\* the created-order record of t is in the open bundle, for a buy of 250 units out of a
\* portfolio that held 1000 units when the percent was computed (funds only ever leave the
\* portfolio, so the order is the only one that took any), on an instance with signals
\* enabled
Buys250Of1000(t) ==
    /\ tasks[t].op = "create_order" /\ tasks[t].quantity = 250
    /\ tasks[t].result /= <<>> /\ SignalsEnabled(tasks[t].inst)
    /\ portfolio[tasks[t].inst] + tasks[t].quantity = 1000
    /\ InScopeAfter(t)

TargetOf(t) ==
    {signal_builders[tasks[t].symbol].records[n].target : n \in RecordsOf(t, tasks[t].symbol)}

\* C20: with signals enabled and a portfolio of 1000 units, create_order for a buy of 250
\* units records the signal's target amount as the string "25.0%": quantity / portfolio
\* x 100, converted to float, followed by the percent sign.
C20_TargetAmountIsFloatPercent ==
    \A t \in Tasks : Buys250Of1000(t) => TargetOf(t) = {"25.0%"}

\* C20 as stated: the target amount reads "25%"
C20_TargetAmountIs25Percent ==
    \A t \in Tasks : Buys250Of1000(t) => TargetOf(t) = {"25%"}

\* the scenario's order has been created and its record enqueued
C20_Witness ==
    \E t \in Tasks : Buys250Of1000(t) /\ TargetOf(t) /= {} /\ tasks[t].returned

\* the place of event ev in the log of task t, 0 when it is not there
PlaceInLog(t, ev) ==
    IF InLog(t, ev) THEN CHOOSE n \in 1..Len(tasks[t].log) : tasks[t].log[n] = ev ELSE 0

\* the create request of task t has been sent to the execution collaborator
CreateSent(t) ==
    tasks[t].op = "create_order" /\ (tasks[t].pc = "trader_create" \/ InLog(t, "trader"))

\* C22: in create_order with signals enabled, the percent-of-portfolio computation has
\* completed before the create request is sent to the execution collaborator, never after;
\* with signals disabled the portfolio is not read and the order is sent directly.
C22_PercentBeforeCreate ==
    \A t \in Tasks :
        /\ (tasks[t].op = "create_order" /\ tasks[t].pc = "portfolio_percent") =>
              SignalsEnabled(tasks[t].inst) /\ ~CreateSent(t)
        /\ CreateSent(t) =>
              IF SignalsEnabled(tasks[t].inst)
              THEN /\ CountLog(t, "portfolio_percent") = 1
                   /\ InLog(t, "trader") => PlaceInLog(t, "portfolio_percent") < PlaceInLog(t, "trader")
              ELSE /\ ~InLog(t, "portfolio_percent")
                   /\ tasks[t].pf = "0%"

\* a create whose request went out after the percent was computed, next to one sent
\* directly by an instance that does not emit
C22_Witness ==
    \E t, u \in Tasks :
        /\ CreateSent(t) /\ SignalsEnabled(tasks[t].inst) /\ InLog(t, "trader")
        /\ PlaceInLog(t, "portfolio_percent") > 0
        /\ CreateSent(u) /\ ~SignalsEnabled(tasks[u].inst) /\ tasks[u].pc = "trader_create"

\* task t runs an order mutation on an instance whose exchange manager is in backtesting
BacktestingMutation(t) == tasks[t].op \in Mediators /\ managers[tasks[t].inst].is_backtesting

\* C27: while the exchange manager is in backtesting, no order mutation touches the signal
\* path, whatever the emit-signals configuration says: create_order computes no portfolio
\* percent, and create_order, cancel_order and edit_order enqueue no signal record and look
\* up no signal bundle builder.
C27_BacktestingNeverSignals ==
    \A t \in Tasks : BacktestingMutation(t) =>
        /\ tasks[t].pc /= "portfolio_percent" /\ ~InLog(t, "portfolio_percent")
        /\ tasks[t].pf \in {None, "0%"}
        /\ ~InLog(t, "add_record")
        /\ tasks[t].exc /= "KeyError"
        /\ \A sym \in Symbols : RecordsOf(t, sym) = {}

\* a create that made its order and an edit that went through, both in backtesting on an
\* instance configured to emit
C27_Witness ==
    \E t, u \in Tasks :
        /\ BacktestingMutation(t) /\ tasks[t].op = "create_order"
        /\ tasks[t].returned /\ tasks[t].result /= <<>>
        /\ DictGet(trading_config[tasks[t].inst].dict, EMIT)
        /\ BacktestingMutation(u) /\ tasks[u].op = "edit_order"
        /\ tasks[u].returned /\ tasks[u].result = <<TRUE>>
        /\ DictGet(trading_config[tasks[u].inst].dict, EMIT)

----------------------------------------------------------------------------
(* Properties of the consumers' registration, checked under SpecChannels and SpecInit *)

Dimensions == {"cryptocurrency", "symbol", "time_frame"}

\* the filter attribute of instance i is unset (None or empty)
Unset(i, dim) == filters[i][dim] = None \/ filters[i][dim] = ""

Initialized(t) == tasks[t].op = "initialize" /\ tasks[t].pc = "done"

\* the channels (by name) consumer c is registered on
ChannelsOf(c) == {s.channel[1] : s \in {x \in subscriptions : x.consumer = c}}

\* C14: create_consumers returns one consumer per class of MODE_CONSUMER_CLASSES, each
\* subscribed to the mode channel, followed by exactly one bookkeeping consumer subscribed
\* to the trades channel when the exchange manager is not backtesting, and by nothing more
\* when it is.
C14_ConsumersCreated ==
    \A t \in Tasks : Initialized(t) =>
        LET i == tasks[t].inst
            lst == consumers[i]
            n == Len(MODE_CONSUMER_CLASSES)
        IN /\ Len(lst) = n + (IF managers[i].is_backtesting THEN 0 ELSE 1)
           /\ \A k \in 1..n : lst[k] = MODE_CONSUMER_CLASSES[k] /\ ChannelsOf(<<i, lst[k]>>) = {"Mode"}
           /\ ~managers[i].is_backtesting =>
                 lst[n + 1] = TradesConsumer /\ ChannelsOf(<<i, TradesConsumer>>) = {"Trades"}
           /\ managers[i].is_backtesting => ChannelsOf(<<i, TradesConsumer>>) = {}

\* a live and a backtesting instance have both been initialized
C14_Witness ==
    \E t, u \in Tasks :
        /\ Initialized(t) /\ ~managers[tasks[t].inst].is_backtesting
        /\ Len(consumers[tasks[t].inst]) = Len(MODE_CONSUMER_CLASSES) + 1
        /\ Initialized(u) /\ managers[tasks[u].inst].is_backtesting
        /\ Len(consumers[tasks[u].inst]) = Len(MODE_CONSUMER_CLASSES)

\* the scope of task t is left in this step, its body having returned
LeavesScope(t) == tasks[t].pc = "scope_exit" /\ tasks'[t].pc /= "scope_exit"

C18_EditedRecordVerbatim ==
    \A t \in Tasks :
        (tasks[t].op = "edit_order" /\ InLog(t, "trader") /\ SignalsEnabled(tasks[t].inst)) =>
            /\ CountLog(t, "add_record") = (IF tasks[t].result = <<TRUE>> THEN 1 ELSE 0)
            /\ InScopeAfter(t) =>
                  /\ Cardinality(RecordsOf(t, tasks[t].symbol)) =
                        (IF tasks[t].result = <<TRUE>> THEN 1 ELSE 0)
                  /\ \A n \in RecordsOf(t, tasks[t].symbol) :
                        LET r == signal_builders[tasks[t].symbol].records[n] IN
                          /\ r.kind = "edited"
                          /\ r.edits.updated_target_amount = tasks[t].edits[1]
                          /\ r.edits.updated_limit_price = tasks[t].edits[2]
                          /\ r.edits.updated_stop_price = tasks[t].edits[3]
                          /\ r.edits.updated_current_price = tasks[t].edits[4]

\* an edit of the quantity and the stop price only that went through, next to an edit the
\* trader refused
C18_Witness ==
    \E t, u \in Tasks :
        /\ tasks[t].op = "edit_order" /\ InScopeAfter(t) /\ tasks[t].result = <<TRUE>>
        /\ tasks[t].edits = <<1, 0, 3, 0>>
        /\ Cardinality(RecordsOf(t, tasks[t].symbol)) = 1
        /\ tasks[u].op = "edit_order" /\ InScopeAfter(u) /\ tasks[u].result = <<FALSE>>
        /\ SignalsEnabled(tasks[t].inst) /\ SignalsEnabled(tasks[u].inst)

----------------------------------------------------------------------------
(* Properties of orders and lifecycle together, checked under SpecOrdersStop and *)
(* SpecOrdersReload                                                              *)

\* C16: once a create, cancel or edit has been sent to the execution collaborator and the
\* collaborator has answered, the mediator finishes and returns that answer without
\* raising, also when stop() of the same instance ran while the answer was awaited.
C16_MutationRunsToCompletion ==
    \A t \in Tasks : (tasks[t].op \in Mediators /\ InLog(t, "trader")) =>
        /\ tasks[t].returned
        /\ tasks[t].ret = tasks[t].result
        /\ tasks[t].exc /= "AttributeError"

\* C17: the "signals enabled" value of an instance does not change once initialize() has
\* completed, so within one create_order the decision to compute the percent (line 445)
\* and the decision to enqueue the record of a created order (line 456) agree.
C17_SignalsEnabledFixed ==
    \A t \in Tasks :
        (tasks[t].op = "create_order" /\ InLog(t, "trader") /\ tasks[t].result /= <<>>) =>
            (InLog(t, "portfolio_percent") <=> InLog(t, "add_record"))

----------------------------------------------------------------------------
(* Properties of the strategy class methods, checked under SpecStrategies *)

\* the mode configuration a call works on: the one passed when it has entries, else the
\* stored one
ModeConfiguration(t) ==
    IF tasks[t].trading_mode_config.is_none \/ tasks[t].trading_mode_config.dict = EmptyDict
    THEN tasks[t].tentacle_config ELSE tasks[t].trading_mode_config.dict

Has(t, key) == key \in DOMAIN ModeConfiguration(t)

\* C19: get_required_strategies_names_and_count raises the "is missing in configuration
\* file" error when the mode configuration has no required-strategies entry, and otherwise
\* returns the configured strategies with the configured minimum count, 1 when none is
\* configured; get_default_strategies returns the default-config entry when there is one,
\* else the required strategies, and raises the same error when both are missing.
C19_StrategiesFromConfiguration ==
    \A t \in Tasks :
        /\ tasks[t].op = "get_required_strategies_names_and_count" =>
              IF Has(t, "required_strategies")
              THEN /\ tasks[t].pc = "done"
                   /\ Len(tasks[t].ret) = 2
                   /\ tasks[t].ret[1] = ModeConfiguration(t)["required_strategies"]
                   /\ tasks[t].ret[2] = IF Has(t, "required_strategies_min_count")
                                        THEN ModeConfiguration(t)["required_strategies_min_count"]
                                        ELSE 1
              ELSE tasks[t].pc = "raised" /\ tasks[t].exc = MissingRequiredStrategies
        /\ tasks[t].op = "get_default_strategies" =>
              IF Has(t, "default_config")
              THEN /\ tasks[t].pc = "done"
                   /\ tasks[t].ret = <<ModeConfiguration(t)["default_config"]>>
              ELSE IF Has(t, "required_strategies")
              THEN /\ tasks[t].pc = "done"
                   /\ tasks[t].ret = <<ModeConfiguration(t)["required_strategies"]>>
              ELSE tasks[t].pc = "raised" /\ tasks[t].exc = MissingRequiredStrategies

\* a call that got the strategies with the count of 1 for want of a configured minimum,
\* next to a get_default_strategies that found neither entry
C19_Witness ==
    \E t, u \in Tasks :
        /\ tasks[t].op = "get_required_strategies_names_and_count"
        /\ ~Has(t, "required_strategies_min_count")
        /\ tasks[t].ret = <<<<"PassedStrategy">>, 1>>
        /\ tasks[u].op = "get_default_strategies"
        /\ ~Has(u, "default_config") /\ ~Has(u, "required_strategies")
        /\ tasks[u].pc = "raised" /\ tasks[u].exc = MissingRequiredStrategies

----------------------------------------------------------------------------
(* Properties of the backtesting metadata record, checked under SpecMetadata *)

MetadataOf(t) == tasks[t].ret[1]
FilledBuys(t) ==
    Cardinality({n \in 1..Len(tasks[t].trades) :
                    tasks[t].trades[n] = [status |-> "FILLED", side |-> "BUY"]})

\* C21: in the backtesting metadata record, entries is the number of filled buy trades,
\* wins is the win rate applied to the entries and rounded to the nearest integer, loses
\* is entries - wins, so wins + loses = entries and 0 <= wins <= entries; 10 filled buys at
\* a win rate of 6 in 10 give win_rate 60.0 (60000 thousandths), wins 6 and loses 4.
C21_WinsAndLosesSplitEntries ==
    \A t \in Tasks : tasks[t].op = "get_backtesting_metadata" =>
        LET m == MetadataOf(t) IN
          /\ m.entries = FilledBuys(t)
          /\ m.wins + m.loses = m.entries
          /\ 0 <= m.wins /\ m.wins <= m.entries
          \* wins is within one half of win_rate x entries / 100
          /\ 2 * (m.wins * 100000 - m.win_rate * m.entries) <= 100000
          /\ 2 * (m.win_rate * m.entries - m.wins * 100000) <= 100000
          /\ (m.entries = 10 /\ tasks[t].rate = <<6, 10>>) =>
                m.win_rate = 60000 /\ m.wins = 6 /\ m.loses = 4

\* the scenario's run: 10 filled buys next to a cancelled buy and a sell, 6 of 10 won
C21_Witness ==
    \E t \in Tasks :
        /\ tasks[t].op = "get_backtesting_metadata"
        /\ FilledBuys(t) = 10 /\ Len(tasks[t].trades) = 12
        /\ tasks[t].rate = <<6, 10>> /\ MetadataOf(t).wins = 6

----------------------------------------------------------------------------
(* Properties of initialize() next to the metadata recorder, checked under SpecInitStop *)

\* the places of event ev in the log of task t
PlacesInLog(t, ev) == {n \in 1..Len(tasks[t].log) : tasks[t].log[n] = ev}

\* every ev1 of the log of task t comes before every ev2
AllBefore(t, ev1, ev2) ==
    \A n1 \in PlacesInLog(t, ev1), n2 \in PlacesInLog(t, ev2) : n1 < n2

\* initialize() of task t has got past save_exchange_init_data (line 208)
PastInitData(t) ==
    /\ tasks[t].op = "initialize"
    /\ \/ tasks[t].pc \in {"producer_run", "new_consumer", "new_trades_consumer", "done"}
       \/ InLog(t, "save_live_metadata")

ConsumerEvents == {"new_consumer", "new_trades_consumer"}

C24_InitDataInOrder ==
    \A t \in Tasks : tasks[t].op = "initialize" =>
        /\ PastInitData(t) =>
              /\ CountLog(t, "save_portfolio") = 1 /\ CountLog(t, "save_live_metadata") = 1
              /\ ~trading_config[tasks[t].inst].is_none
        /\ AllBefore(t, "load_and_save_user_inputs", "save_portfolio")
        /\ AllBefore(t, "save_portfolio", "save_live_metadata")
        /\ AllBefore(t, "save_live_metadata", "producer_run")
        /\ \A ev \in ConsumerEvents :
              /\ AllBefore(t, "save_live_metadata", ev)
              /\ AllBefore(t, "producer_run", ev)
        /\ (tasks[t].pc \in ConsumerEvents \/ LogEvents(t) \cap ConsumerEvents /= {}) =>
              CountLog(t, "producer_run") = NumProducerClasses
        /\ tasks[t].pc \in {"save_portfolio", "save_live_metadata"} =>
              LogEvents(t) \cap ({"producer_run"} \cup ConsumerEvents) = {}

C24_FlagUntouched ==
    \A t \in Tasks :
        (tasks[t].op = "initialize" /\ tasks'[t] /= tasks[t]) =>
            /\ SAVED_RUN_METADATA_DB_BY_BOT_ID' = SAVED_RUN_METADATA_DB_BY_BOT_ID
            /\ are_metadata_saved' = are_metadata_saved

\* C24: every initialize() persists the portfolio snapshot and the live metadata, whatever
\* the SavedFlag says and without changing it, a repeated initialize() included; it does so
\* after the configuration is loaded and before any producer or consumer is created, and
\* the producers are all created before any consumer.
C24_InitializePersistsUnconditionally ==
    []C24_InitDataInOrder /\ [][C24_FlagUntouched]_vars

\* an initialize() that persisted both although the metadata of its run were already saved
\* when it was called, and a second initialize() of an instance that persisted them again
C24_Witness ==
    \E t \in Tasks :
        /\ tasks[t].op = "initialize" /\ tasks[t].pc = "done"
        /\ InLog(t, "save_portfolio") /\ InLog(t, "save_live_metadata")
        /\ tasks[t].succeeded
        /\ DictGet(SAVED_RUN_METADATA_DB_BY_BOT_ID, BotOf(tasks[t].inst))

C24_WitnessRepeated ==
    \E t \in Tasks :
        /\ tasks[t].op = "initialize" /\ tasks[t].pc = "producer_run"
        /\ InLog(t, "save_live_metadata")
        /\ \A k \in 1..NumConsumerClasses :
              unit_state[tasks[t].inst][MODE_CONSUMER_CLASSES[k]] = "started"

----------------------------------------------------------------------------
(* Properties of the trades callback, checked under SpecTrades *)

TradeOf(t) == tasks[t].trades[1]
Stored(i) == {trades_db[i][n] : n \in 1..Len(trades_db[i])}

\* C25: the trades consumer stores an observed trade in the trades database if and only
\* if the trade's status is not CANCELED: a cancelled trade causes no storage write, any
\* other trade is handed to store_trade and is in the database once that returns.
C25_StoresUnlessCanceled ==
    /\ \A i \in Inst : \A trade \in Stored(i) : trade.status /= "CANCELED"
    /\ \A t \in Tasks : tasks[t].op = "trades_callback" =>
          IF TradeOf(t).status = "CANCELED"
          THEN tasks[t].pc = "done" /\ ~InLog(t, "store_trade")
          ELSE /\ tasks[t].pc \in {"store_trade", "done", "raised"}
               /\ tasks[t].pc = "done" => InLog(t, "store_trade") /\ TradeOf(t) \in Stored(tasks[t].inst)
               /\ tasks[t].pc = "raised" => tasks[t].at = "store_trade"
    \* no more writes than trades observed
    /\ \A i \in Inst : Len(trades_db[i]) <= calls

\* a filled trade that was stored next to a cancelled one that was dropped
C25_Witness ==
    \E t, u \in Tasks :
        /\ tasks[t].op = "trades_callback" /\ tasks[t].pc = "done"
        /\ TradeOf(t).status = "FILLED" /\ trades_db[tasks[t].inst] = <<TradeOf(t)>>
        /\ tasks[u].op = "trades_callback" /\ tasks[u].pc = "done"
        /\ TradeOf(u).status = "CANCELED" /\ tasks[u].inst = tasks[t].inst

----------------------------------------------------------------------------
(* Properties of ccxt_client_util, checked under SpecClient *)

ArgsOf(t) == tasks[t].args[1]

\* something raised inside the try block of create_client (lines 48-61)
RaisedInTry(a) ==
    \/ a.get_exchange_credentials = "raises"
    \/ a.keys_adapter = "raises"
    \/ a.exchange_class = "raises"
    \/ /\ a.should_authenticate /\ ~a.is_backtesting
       /\ a.check_credentials /\ a.checkRequiredCredentials = "raises"

\* C29: create_client returns is_authenticated = True only when the configuration check
\* passed or is ignored, should_authenticate is set, the exchange manager is not in
\* backtesting, and the credentialed client was built and passed its required-credentials
\* check (when check_credentials is set) without any exception; on any exception in that
\* block it returns the unauthenticated fallback client with False, and with a failed
\* configuration check an unauthenticated client with False.
C29_AuthenticatedOnlyWhenBuilt ==
    \A t \in Tasks : (tasks[t].op = "create_client" /\ tasks[t].pc = "done") =>
        LET a == ArgsOf(t)
            client == tasks[t].ret[1]
            is_authenticated == tasks[t].ret[2] IN
          /\ is_authenticated =>
                /\ a.ignore_config \/ a.check_config
                /\ a.should_authenticate /\ ~a.is_backtesting
                /\ ~RaisedInTry(a)
                /\ client = "credentialed"
          /\ ((a.ignore_config \/ a.check_config) /\ RaisedInTry(a)) =>
                /\ ~is_authenticated
                /\ client = IF a.unauthenticated_exchange_fallback = "none"
                            THEN "unauthenticated" ELSE "fallback"
          /\ ~(a.ignore_config \/ a.check_config) =>
                ~is_authenticated /\ client = "unauthenticated"

\* a client whose required-credentials check raised after it was built, answered with the
\* caller's fallback and False
C29_Witness ==
    \E t \in Tasks :
        /\ tasks[t].op = "create_client" /\ tasks[t].pc = "done"
        /\ ArgsOf(t).check_config /\ ~ArgsOf(t).ignore_config
        /\ ArgsOf(t).should_authenticate /\ ~ArgsOf(t).is_backtesting
        /\ ArgsOf(t).get_exchange_credentials = "ok" /\ ArgsOf(t).keys_adapter = "ok"
        /\ ArgsOf(t).exchange_class = "ok"
        /\ ArgsOf(t).check_credentials /\ ArgsOf(t).checkRequiredCredentials = "raises"
        /\ tasks[t].ret = <<"fallback", FALSE>>

\* C30: set_sandbox_mode never returns normally when the client does not support
\* sandboxing: the NotSupported error is logged and raised again to the caller.
C30_NotSupportedIsRaised ==
    \A t \in Tasks :
        (tasks[t].op = "set_sandbox_mode" /\ ArgsOf(t).setSandboxMode = "NotSupported") =>
            /\ tasks[t].pc = "raised" /\ ~tasks[t].returned
            /\ tasks[t].exc = "NotSupported"
            /\ tasks[t].ret = <<None, "warning">>

\* a client asked to run sandboxed that does not support it
C30_Witness ==
    \E t \in Tasks :
        /\ tasks[t].op = "set_sandbox_mode" /\ ArgsOf(t).is_sandboxed
        /\ ArgsOf(t).setSandboxMode = "NotSupported" /\ tasks[t].pc = "raised"

====
